---- MODULE Spec2Model ----
(***************************************************************************)
(* Filter evaluation engine of bilibili-following-analyzer:                *)
(*   - CachedDataFetcher (cache.py) over a diskcache store with TTLs,      *)
(*   - FilterContext (filters.py) with its two per-run memo maps,          *)
(*   - the primitive and composite filters and their evaluation order,     *)
(*   - the recursive-descent FilterExpressionParser.                       *)
(***************************************************************************)
EXTENDS Integers, Sequences, FiniteSets, TLC

VARIABLES
    now,            \* wall clock, seconds (time.time())
    remoteStat,     \* data source: mid -> stat record currently served
    remoteActivity, \* data source: mid -> activity profile currently served
    cacheOn,        \* CachedDataFetcher.cache is not None
    store,          \* diskcache contents: key -> [value, expire_time]
    user_stats,     \* FilterContext.user_stats
    user_activity,  \* FilterContext.user_activity
    statFetches,    \* client.get_user_stat invocations by this context, per mid
    actFetches,     \* client.get_user_activity invocations by this context, per mid
    aborted,        \* an exception left the run
    closed,         \* CachedDataFetcher.close() was called
    last,           \* observation of the last operation
    interacting_users, \* FilterContext.interacting_users
    composite_filter,  \* the filter expression of the run, parsed
    filter_list,    \* main's `filters`: the -f / --filter options, parsed
    filter_mode,    \* args.filter_mode: "and" or "or"
    followings,     \* the followings the run iterates over
    processed,      \* how many of them apply_filter_expression has gone through
    results,        \* the FilterResults of apply_filter_expression so far
    evalOut,        \* the last evaluation of the filter on a subject
    parsed,         \* the expression parser's input and outcome
    args,           \* the other command-line arguments main and _run_analysis read
    pc              \* where main is: "main", "_run_analysis" or "apply"

ctxVars == <<now, remoteStat, remoteActivity, cacheOn,
             store, user_stats, user_activity, statFetches, actFetches,
             aborted, closed, last>>

nonCtxVars == <<interacting_users, composite_filter, filter_list, filter_mode,
                followings, processed, results, evalOut, parsed, args, pc>>

vars == <<ctxVars, nonCtxVars>>

----------------------------------------------------------------------------
(* Bounds *)

MaxFetchCount == 2

Mids == {1, 2}

----------------------------------------------------------------------------
(* Python values *)

\* Optional values: None, or Some(x) for a value x.
None == <<>>
Some(x) == <<x>>
Unbox(b) == b[1]

Min(a, b) == IF a < b THEN a ELSE b

\* d[k] = v on a dict d (a function on the keys it holds)
DictSet(d, k, v) == [x \in DOMAIN d \cup {k} |-> IF x = k THEN v ELSE d[x]]

EmptyDict == [x \in {} |-> None]

----------------------------------------------------------------------------
(* cache.py *)

TTL_USER_STAT == 24 * 60 * 60
TTL_USER_ACTIVITY == 6 * 60 * 60

make_user_stat_key(mid) == <<"user_stat", mid>>
make_user_activity_key(mid) == <<"user_activity", mid>>

\* A key of some other client of the (generic) CachedDataFetcher.
OtherKey == <<"other", 0>>

\* diskcache serves an entry while its expire_time is later than now
\* (mutated: an entry is still served at its expiry time).
UnexpiredInclusive(e) == e.expire_time >= now

\* diskcache serves an entry while its expire_time is later than now.
Unexpired(e) == e.expire_time > now

\* self.cache.get(key): the stored value, or None when the key is missing or
\* its entry has expired.
CacheGet(st, key) ==
    IF key \in DOMAIN st /\ Unexpired(st[key])
    THEN st[key].value
    ELSE None

\* self.cache.set(key, value, expire=ttl)
CacheSet(st, key, value, ttl) ==
    DictSet(st, key, [value |-> value, expire_time |-> now + ttl])

\* CachedDataFetcher.get_or_fetch (mutated: a fetcher that raises leaves None
\* stored under the key)
get_or_fetchStoringFailure(st, key, fetcher, ttl) ==
    IF ~cacheOn
    THEN [store |-> st, calls |-> 1, raised |-> fetcher.raised,
          value |-> fetcher.value]
    ELSE LET value == CacheGet(st, key)
         IN IF value # None
            THEN [store |-> st, calls |-> 0, raised |-> FALSE, value |-> value]
            ELSE IF fetcher.raised
            THEN [store |-> CacheSet(st, key, None, ttl), calls |-> 1,
                  raised |-> TRUE, value |-> None]
            ELSE [store |-> CacheSet(st, key, fetcher.value, ttl), calls |-> 1,
                  raised |-> FALSE, value |-> fetcher.value]

\* CachedDataFetcher.get_or_fetch(key, fetcher, ttl).  `fetcher` is what a call
\* of the fetcher does: [raised, value].  The result tells how often the
\* fetcher was called, whether the call raised, the value returned and the
\* store afterwards.
get_or_fetch(st, key, fetcher, ttl) ==
    IF ~cacheOn
    THEN [store |-> st, calls |-> 1, raised |-> fetcher.raised,
          value |-> fetcher.value]
    ELSE LET value == CacheGet(st, key)
         IN IF value # None
            THEN [store |-> st, calls |-> 0, raised |-> FALSE, value |-> value]
            ELSE IF fetcher.raised
            THEN [store |-> st, calls |-> 1, raised |-> TRUE, value |-> None]
            ELSE [store |-> CacheSet(st, key, fetcher.value, ttl), calls |-> 1,
                  raised |-> FALSE, value |-> fetcher.value]

\* CachedDataFetcher.clear() (mutated: without the `is not None` guard)
clearUnguarded(st) == EmptyDict

\* CachedDataFetcher.clear()
clear(st) == IF cacheOn THEN EmptyDict ELSE st

\* CachedDataFetcher.close(): releases the store's handle, keeps its contents.
close(st) == st

----------------------------------------------------------------------------
(* The data source (BilibiliClient) *)

StatRecords == {[follower |-> 3000, following |-> 100],
                [follower |-> 8000, following |-> 2500]}

FetchKinds == {"stat", "activity"}

\* client.get_user_stat(mid), as a fetcher outcome; `failing` are the kinds of
\* request the remote service fails at the moment.
client_get_user_stat(failing, mid) ==
    [raised |-> "stat" \in failing, value |-> Some(remoteStat[mid])]

\* client.get_user_activity(mid, max_dynamics=...): looks at no more than
\* max_dynamics recent posts.
client_get_user_activity(failing, mid, max_dynamics) ==
    LET p == remoteActivity[mid]
        total == Min(p.posts, max_dynamics)
    IN [raised |-> "activity" \in failing,
        value |-> Some([is_deactivated |-> p.is_deactivated,
                        total_dynamics |-> total,
                        repost_count |-> Min(p.reposts, total),
                        last_post_ts |-> p.last_post_ts])]

----------------------------------------------------------------------------
(* filters.py: FilterContext *)

\* The state a FilterContext call works on: the store, the two memo maps, the
\* count of data-source calls, and the requests the data source fails.
Ctx(failing) ==
    [store |-> store, user_stats |-> user_stats,
     user_activity |-> user_activity,
     statFetches |-> statFetches, actFetches |-> actFetches,
     failing |-> failing]

\* The mutated memo test: the memo is never consulted.
MemoMiss(memo, mid) == FALSE

\* `mid in self.user_stats` / `mid in self.user_activity`
InMemo(memo, mid) == mid \in DOMAIN memo

\* FilterContext.get_user_stat past the memo: get_or_fetch has returned r (or
\* raised); the counter, the store and the memo afterwards
StatFetched(c, mid, r) ==
    LET c1 == [c EXCEPT !.store = r.store,
                        !.statFetches[mid] = @ + r.calls]
    IN IF r.raised
       THEN [c |-> c1, raised |-> TRUE, value |-> None,
             consulted |-> TRUE, calls |-> r.calls]
       ELSE [c |-> [c1 EXCEPT !.user_stats = DictSet(@, mid, r.value)],
             raised |-> FALSE, value |-> r.value,
             consulted |-> TRUE, calls |-> r.calls]

\* FilterContext.get_user_stat(mid) on context state c:
\* [c: the state afterwards, raised, value, consulted: get_or_fetch was reached]
get_user_stat(c, mid) ==
    IF InMemo(c.user_stats, mid)
    THEN [c |-> c, raised |-> FALSE, value |-> c.user_stats[mid],
          consulted |-> FALSE, calls |-> 0]
    ELSE StatFetched(c, mid,
                     get_or_fetch(c.store, make_user_stat_key(mid),
                                  client_get_user_stat(c.failing, mid),
                                  TTL_USER_STAT))

\* FilterContext.get_user_activity past the memo, get_or_fetch having returned r
ActivityFetched(c, mid, r) ==
    LET c1 == [c EXCEPT !.store = r.store,
                        !.actFetches[mid] = @ + r.calls]
    IN IF r.raised
       THEN [c |-> c1, raised |-> TRUE, value |-> None,
             consulted |-> TRUE, calls |-> r.calls]
       ELSE [c |-> [c1 EXCEPT !.user_activity = DictSet(@, mid, r.value)],
             raised |-> FALSE, value |-> r.value,
             consulted |-> TRUE, calls |-> r.calls]

\* FilterContext.get_user_activity (mutated: the memo is not looked at)
get_user_activityPastMemo(c, mid, max_dynamics) ==
    ActivityFetched(c, mid,
                    get_or_fetch(c.store, make_user_activity_key(mid),
                                 client_get_user_activity(c.failing, mid,
                                                          max_dynamics),
                                 TTL_USER_ACTIVITY))

\* FilterContext.get_user_activity (mutated: the memo serves the calls with
\* the default max_dynamics only)
get_user_activityPerBound(c, mid, max_dynamics) ==
    IF max_dynamics = 10 /\ InMemo(c.user_activity, mid)
    THEN [c |-> c, raised |-> FALSE, value |-> c.user_activity[mid],
          consulted |-> FALSE, calls |-> 0]
    ELSE ActivityFetched(c, mid,
                         get_or_fetch(c.store, make_user_activity_key(mid),
                                      client_get_user_activity(c.failing, mid,
                                                               max_dynamics),
                                      TTL_USER_ACTIVITY))

\* FilterContext.get_user_activity(mid, max_dynamics)
get_user_activity(c, mid, max_dynamics) ==
    IF InMemo(c.user_activity, mid)
    THEN [c |-> c, raised |-> FALSE, value |-> c.user_activity[mid],
          consulted |-> FALSE, calls |-> 0]
    ELSE ActivityFetched(c, mid,
                         get_or_fetch(c.store, make_user_activity_key(mid),
                                      client_get_user_activity(c.failing, mid,
                                                               max_dynamics),
                                      TTL_USER_ACTIVITY))

\* max_dynamics: the default of get_user_activity
DEFAULT_MAX_DYNAMICS == 10

----------------------------------------------------------------------------
(* filters.py: MatchInfo, the primitive filters *)

\* A Python str is a sequence of pieces: a literal text or a formatted number.
Lit(text) == [text |-> text, num |-> 0]
Num(n) == [text |-> "{}", num |-> n]

\* MatchInfo.no_match()
no_match == [matched |-> FALSE, detail |-> None, filter_names |-> <<>>]

\* MatchInfo.match(filter_name, detail)
match(filter_name, detail) ==
    [matched |-> TRUE, detail |-> Some(detail), filter_names |-> <<filter_name>>]

\* Following.is_mutual
is_mutual(following) == following.attribute = 6

\* A filter object: its registered name, its parameter (None without one, a
\* number num/den with one) and, for a composite, its children.
NoParam == None
Param(num, den) == Some([num |-> num, den |-> den])

Prim(name, param) == [name |-> name, param |-> param, filters |-> <<>>]
AndFilter(filters) == [name |-> "and", param |-> NoParam, filters |-> filters]
OrFilter(filters) == [name |-> "or", param |-> NoParam, filters |-> filters]

\* The state an evaluation works on: the FilterContext state c and the trace
\* of what happened so far.  Events: a filter's matches() is entered ("eval") or
\* returns ("ret", with its MatchInfo), the data source is called ("fetch").
Event(ev, path, info, kind, mid) ==
    [ev |-> ev, path |-> path, info |-> info, kind |-> kind, mid |-> mid]

\* The outcome of a matches() call: a MatchInfo unless an exception was raised.
Returned(info, s) == [info |-> info, s |-> s, raised |-> FALSE]
Raised(s) == [info |-> no_match, s |-> s, raised |-> TRUE]

\* The evaluation state after a context call r made by the filter at path.
AfterCall(s, r, path, kind, mid) ==
    [s EXCEPT !.c = r.c,
              !.trace = IF r.calls > 0
                        THEN Append(@, Event("fetch", path, no_match, kind, mid))
                        ELSE @]

\* stat.get(field, 0)
StatGet(stat, field) == IF field \in DOMAIN stat THEN stat[field] ELSE 0

\* NotFollowingBackFilter.matches
NotFollowingBackMatches(f, following, s, path) ==
    IF ~is_mutual(following)
    THEN Returned(match(f.name, <<Lit("not followed back")>>), s)
    ELSE Returned(no_match, s)

\* MutualFollowFilter.matches
MutualFollowMatches(f, following, s, path) ==
    IF is_mutual(following)
    THEN Returned(match(f.name, <<Lit("mutual follow")>>), s)
    ELSE Returned(no_match, s)

\* (mutated: the comparison with the threshold is not strict)
ThresholdStatResultInclusive(f, following, s, path, stat_field, compare_above, detail_prefix, r) ==
    LET s1 == AfterCall(s, r, path, "stat", following.mid)
        value == StatGet(Unbox(r.value), stat_field)
        threshold == Unbox(f.param).num
        matched == IF compare_above THEN value >= threshold ELSE value <= threshold
    IN IF r.raised THEN Raised(s1)
       ELSE IF matched
       THEN Returned(match(f.name, <<Lit(detail_prefix), Lit(" "), Num(value)>>), s1)
       ELSE Returned(no_match, s1)

\* _ThresholdStatFilter.matches, with the subclass's configuration, past
\* `stat = ctx.get_user_stat(following.mid)`, which did r
ThresholdStatResult(f, following, s, path, stat_field, compare_above, detail_prefix, r) ==
    LET s1 == AfterCall(s, r, path, "stat", following.mid)
        value == StatGet(Unbox(r.value), stat_field)
        threshold == Unbox(f.param).num
        matched == IF compare_above THEN value > threshold ELSE value < threshold
    IN IF r.raised THEN Raised(s1)
       ELSE IF matched
       THEN Returned(match(f.name, <<Lit(detail_prefix), Lit(" "), Num(value)>>), s1)
       ELSE Returned(no_match, s1)

\* _ThresholdStatFilter.matches
ThresholdStatMatches(f, following, s, path, stat_field, compare_above, detail_prefix) ==
    ThresholdStatResult(f, following, s, path, stat_field, compare_above,
                        detail_prefix, get_user_stat(s.c, following.mid))

\* NoInteractionFilter.matches
NoInteractionMatches(f, following, s, path) ==
    IF following.mid \notin interacting_users
    THEN Returned(match(f.name, <<Lit("no recent interaction")>>), s)
    ELSE Returned(no_match, s)

\* InactiveFilter.matches past `activity = ctx.get_user_activity(...)`, which
\* did r
InactiveResult(f, following, s, path, r) ==
    LET s1 == AfterCall(s, r, path, "activity", following.mid)
        activity == Unbox(r.value)
        days_since_post == (now - Unbox(activity.last_post_ts)) \div 86400
    IN IF r.raised THEN Raised(s1)
       ELSE IF activity.is_deactivated
       THEN Returned(match(f.name, <<Lit("account deactivated")>>), s1)
       ELSE IF activity.total_dynamics = 0
       THEN Returned(match(f.name, <<Lit("no posts at all")>>), s1)
       ELSE IF activity.last_post_ts # None /\ days_since_post > Unbox(f.param).num
       THEN Returned(match(f.name, <<Lit("no update for over "), Num(days_since_post),
                                     Lit(" days")>>), s1)
       ELSE Returned(no_match, s1)

\* RepostRatioFilter.matches past ctx.get_user_activity; the ratios are
\* compared as exact fractions
RepostRatioResult(f, following, s, path, r) ==
    LET s1 == AfterCall(s, r, path, "activity", following.mid)
        activity == Unbox(r.value)
        ratio == Unbox(f.param)
        pct == (activity.repost_count * 100) \div activity.total_dynamics
    IN IF r.raised THEN Raised(s1)
       ELSE IF activity.total_dynamics = 0
       THEN Returned(no_match, s1)
       ELSE IF activity.repost_count * ratio.den >= ratio.num * activity.total_dynamics
       THEN Returned(match(f.name, <<Num(pct), Lit("% are reposts")>>), s1)
       ELSE Returned(no_match, s1)

\* DeactivatedFilter.matches past ctx.get_user_activity
DeactivatedResult(f, following, s, path, r) ==
    LET s1 == AfterCall(s, r, path, "activity", following.mid)
    IN IF r.raised THEN Raised(s1)
       ELSE IF Unbox(r.value).is_deactivated
       THEN Returned(match(f.name, <<Lit("account deactivated or inaccessible")>>), s1)
       ELSE Returned(no_match, s1)

\* NoPostsFilter.matches (mutated: is_deactivated is not looked at)
NoPostsResultOfAnyAccount(f, following, s, path, r) ==
    LET s1 == AfterCall(s, r, path, "activity", following.mid)
    IN IF r.raised THEN Raised(s1)
       ELSE IF Unbox(r.value).total_dynamics = 0
       THEN Returned(match(f.name, <<Lit("no posts at all")>>), s1)
       ELSE Returned(no_match, s1)

\* NoPostsFilter.matches past ctx.get_user_activity
NoPostsResult(f, following, s, path, r) ==
    LET s1 == AfterCall(s, r, path, "activity", following.mid)
    IN IF r.raised THEN Raised(s1)
       ELSE IF ~Unbox(r.value).is_deactivated /\ Unbox(r.value).total_dynamics = 0
       THEN Returned(match(f.name, <<Lit("no posts at all")>>), s1)
       ELSE Returned(no_match, s1)

\* One of the four filters on the activity: r is what ctx.get_user_activity did
WithActivity(f, following, s, path, r) ==
    CASE f.name = "inactive" -> InactiveResult(f, following, s, path, r)
      [] f.name = "repost-ratio" -> RepostRatioResult(f, following, s, path, r)
      [] f.name = "deactivated" -> DeactivatedResult(f, following, s, path, r)
      [] f.name = "no-posts" -> NoPostsResult(f, following, s, path, r)

\* InactiveFilter / RepostRatioFilter / DeactivatedFilter / NoPostsFilter
\* .matches: each starts with ctx.get_user_activity(following.mid)
ActivityMatches(f, following, s, path) ==
    WithActivity(f, following, s, path,
                 get_user_activity(s.c, following.mid, DEFAULT_MAX_DYNAMICS))

\* matches() of a primitive filter, by its class
PrimMatches(f, following, s, path) ==
    CASE f.name = "not-following-back" -> NotFollowingBackMatches(f, following, s, path)
      [] f.name = "mutual" -> MutualFollowMatches(f, following, s, path)
      [] f.name \in {"below-followers", "above-followers", "too-many-followings"} ->
            ThresholdStatMatches(f, following, s, path,
                IF f.name = "too-many-followings" THEN "following" ELSE "follower",
                f.name # "below-followers",
                IF f.name = "too-many-followings" THEN "followings" ELSE "followers")
      [] f.name = "no-interaction" -> NoInteractionMatches(f, following, s, path)
      [] f.name \in {"inactive", "repost-ratio", "deactivated", "no-posts"} ->
            ActivityMatches(f, following, s, path)

----------------------------------------------------------------------------
(* filters.py: AndFilter, OrFilter *)

\* sep.join(strs)
RECURSIVE join(_, _)
join(sep, strs) ==
    IF strs = <<>> THEN <<>>
    ELSE IF Len(strs) = 1 THEN strs[1]
    ELSE strs[1] \o sep \o join(sep, Tail(strs))

\* `if result.detail:` - neither None nor the empty string
Truthy(detail) == detail # None /\ Unbox(detail) # <<>>

\* `if result.detail: all_details.append(result.detail)`
AppendDetail(all_details, result) ==
    IF Truthy(result.detail)
    THEN Append(all_details, Unbox(result.detail))
    ELSE all_details

\* (mutated: the details are joined with a comma)
JoinDetailsComma(all_details) ==
    IF all_details # <<>> THEN Some(join(<<Lit(", ")>>, all_details)) ELSE None

\* `'; '.join(all_details) if all_details else None`
JoinDetails(all_details) ==
    IF all_details # <<>> THEN Some(join(<<Lit("; ")>>, all_details)) ELSE None

\* (mutated: the AndFilter goes on after a child that did not match)
AndNeverStops(result) == FALSE

\* AndFilter.matches: `if not result.matched: return MatchInfo.no_match()`
AndStops(result) == ~result.matched

\* OrFilter.matches: `if all_filter_names:` decides between match and no_match
OrResult(all_details, all_filter_names) ==
    IF all_filter_names # <<>>
    THEN [matched |-> TRUE, detail |-> JoinDetails(all_details),
          filter_names |-> all_filter_names]
    ELSE no_match

\* matches() is entered / returns: the trace says so
Enter(s, path) == [s EXCEPT !.trace = Append(@, Event("eval", path, no_match, "", 0))]
Return(path, r) ==
    IF r.raised THEN r ELSE [r EXCEPT !.s.trace = Append(@, Event("ret", path, r.info, "", 0))]

RECURSIVE matches(_, _, _, _)
RECURSIVE AndLoop(_, _, _, _, _, _, _)
RECURSIVE AndNext(_, _, _, _, _, _, _)
RECURSIVE OrLoop(_, _, _, _, _, _, _)
RECURSIVE OrNext(_, _, _, _, _, _, _)

\* AndFilter.matches from its i-th child on
AndLoop(filters, i, following, s, path, all_details, all_filter_names) ==
    IF i > Len(filters)
    THEN Returned([matched |-> TRUE, detail |-> JoinDetails(all_details),
                   filter_names |-> all_filter_names], s)
    ELSE AndNext(filters, i, following, path, all_details, all_filter_names,
                 matches(filters[i], following, s, Append(path, i)))

\* The body of AndFilter.matches' loop past `result = f.matches(following, ctx)`
AndNext(filters, i, following, path, all_details, all_filter_names, result) ==
    IF result.raised THEN Raised(result.s)
    ELSE IF AndStops(result.info) THEN Returned(no_match, result.s)
    ELSE AndLoop(filters, i + 1, following, result.s, path,
                 AppendDetail(all_details, result.info),
                 all_filter_names \o result.info.filter_names)

\* (mutated: the OrFilter returns at its first matching child)
OrNextFirstMatch(filters, i, following, path, all_details, all_filter_names, result) ==
    IF result.raised THEN Raised(result.s)
    ELSE IF result.info.matched
    THEN Returned(OrResult(AppendDetail(all_details, result.info),
                           all_filter_names \o result.info.filter_names), result.s)
    ELSE OrLoop(filters, i + 1, following, result.s, path,
                all_details, all_filter_names)

\* OrFilter.matches from its i-th child on
OrLoop(filters, i, following, s, path, all_details, all_filter_names) ==
    IF i > Len(filters)
    THEN Returned(OrResult(all_details, all_filter_names), s)
    ELSE OrNext(filters, i, following, path, all_details, all_filter_names,
                matches(filters[i], following, s, Append(path, i)))

\* The body of OrFilter.matches' loop past `result = f.matches(following, ctx)`
OrNext(filters, i, following, path, all_details, all_filter_names, result) ==
    IF result.raised THEN Raised(result.s)
    ELSE IF result.info.matched
    THEN OrLoop(filters, i + 1, following, result.s, path,
                AppendDetail(all_details, result.info),
                all_filter_names \o result.info.filter_names)
    ELSE OrLoop(filters, i + 1, following, result.s, path,
                all_details, all_filter_names)

\* f.matches(following, ctx) for the filter f found at `path` of the
\* expression, on evaluation state s
matches(f, following, s, path) ==
    Return(path,
           CASE f.name = "and" ->
                    AndLoop(f.filters, 1, following, Enter(s, path), path, <<>>, <<>>)
             [] f.name = "or" ->
                    OrLoop(f.filters, 1, following, Enter(s, path), path, <<>>, <<>>)
             [] OTHER -> PrimMatches(f, following, Enter(s, path), path))

----------------------------------------------------------------------------
(* filters.py: the filter registry and Filter.create *)

\* Text is a sequence of characters.
\* str.isalpha, on the letters that occur in the texts here
isalpha(ch) ==
    ch \in {"a", "b", "c", "d", "e", "f", "g", "h", "i", "j", "k", "l", "m",
            "n", "o", "p", "q", "r", "s", "t", "u", "v", "w", "x", "y", "z"}

DigitChars == <<"0", "1", "2", "3", "4", "5", "6", "7", "8", "9">>

\* str.isdigit
isdigit(ch) == \E i \in DOMAIN DigitChars : DigitChars[i] = ch
Whitespace == {" ", "\t", "\n"}

DigitValue(ch) == (CHOOSE i \in DOMAIN DigitChars : DigitChars[i] = ch) - 1

\* ALL_FILTERS: each class's name (also spelled out in characters), whether it
\* takes a parameter, and what its create() parses the parameter as.
ALL_FILTERS ==
    <<
      [name |-> "not-following-back", has_param |-> FALSE, param_type |-> "none",
       chars |-> <<"n", "o", "t", "-", "f", "o", "l", "l", "o", "w", "i", "n", "g", "-", "b", "a", "c", "k">>],
      [name |-> "mutual", has_param |-> FALSE, param_type |-> "none",
       chars |-> <<"m", "u", "t", "u", "a", "l">>],
      [name |-> "below-followers", has_param |-> TRUE, param_type |-> "int",
       chars |-> <<"b", "e", "l", "o", "w", "-", "f", "o", "l", "l", "o", "w", "e", "r", "s">>],
      [name |-> "above-followers", has_param |-> TRUE, param_type |-> "int",
       chars |-> <<"a", "b", "o", "v", "e", "-", "f", "o", "l", "l", "o", "w", "e", "r", "s">>],
      [name |-> "no-interaction", has_param |-> FALSE, param_type |-> "none",
       chars |-> <<"n", "o", "-", "i", "n", "t", "e", "r", "a", "c", "t", "i", "o", "n">>],
      [name |-> "too-many-followings", has_param |-> TRUE, param_type |-> "int",
       chars |-> <<"t", "o", "o", "-", "m", "a", "n", "y", "-", "f", "o", "l", "l", "o", "w", "i", "n", "g", "s">>],
      [name |-> "inactive", has_param |-> TRUE, param_type |-> "int",
       chars |-> <<"i", "n", "a", "c", "t", "i", "v", "e">>],
      [name |-> "repost-ratio", has_param |-> TRUE, param_type |-> "float",
       chars |-> <<"r", "e", "p", "o", "s", "t", "-", "r", "a", "t", "i", "o">>],
      [name |-> "deactivated", has_param |-> FALSE, param_type |-> "none",
       chars |-> <<"d", "e", "a", "c", "t", "i", "v", "a", "t", "e", "d">>],
      [name |-> "no-posts", has_param |-> FALSE, param_type |-> "none",
       chars |-> <<"n", "o", "-", "p", "o", "s", "t", "s">>]
    >>

\* FILTER_REGISTRY, keyed by the characters of the name
RegisteredNames == {ALL_FILTERS[i].chars : i \in DOMAIN ALL_FILTERS}
FILTER_REGISTRY(name) ==
    ALL_FILTERS[CHOOSE i \in DOMAIN ALL_FILTERS : ALL_FILTERS[i].chars = name]

\* The outcome of parsing: a filter and the position reached, or the
\* ValueError raised: its message's kind, the position it reports (None when
\* it reports none) and the text it quotes.
NoFilter == Prim("", NoParam)
NoError == [kind |-> "", at |-> None, text |-> <<>>]
ValueError(kind, at, text) == [kind |-> kind, at |-> at, text |-> text]
Ok(node, pos) == [ok |-> TRUE, node |-> node, pos |-> pos, error |-> NoError]
Fail(error, pos) == [ok |-> FALSE, node |-> NoFilter, pos |-> pos, error |-> error]

\* str.strip()
RECURSIVE strip(_)
strip(text) ==
    IF text # <<>> /\ Head(text) \in Whitespace THEN strip(Tail(text))
    ELSE IF text # <<>> /\ text[Len(text)] \in Whitespace
    THEN strip(SubSeq(text, 1, Len(text) - 1))
    ELSE text

RECURSIVE DigitsValue(_)
\* The number a run of decimal digits denotes
DigitsValue(ds) ==
    IF ds = <<>> THEN 0
    ELSE 10 * DigitsValue(SubSeq(ds, 1, Len(ds) - 1)) + DigitValue(ds[Len(ds)])

AllDigits(text) == \A i \in DOMAIN text : isdigit(text[i])

\* A leading sign and the rest
Sign(text) == IF text # <<>> /\ Head(text) = "-" THEN -1 ELSE 1
Unsigned(text) == IF text # <<>> /\ Head(text) \in {"+", "-"} THEN Tail(text) ELSE text

\* int(param): None for a ValueError.  Surrounding whitespace is stripped, a
\* sign may lead, decimal digits follow (the texts here hold no underscores).
int(param) ==
    LET text == strip(param)
    IN IF Unsigned(text) # <<>> /\ AllDigits(Unsigned(text))
       THEN Some(Sign(text) * DigitsValue(Unsigned(text)))
       ELSE None

RECURSIVE Pow10(_)
Pow10(k) == IF k = 0 THEN 1 ELSE 10 * Pow10(k - 1)

RECURSIVE GCD(_, _)
GCD(a, b) == IF b = 0 THEN a ELSE GCD(b, a % b)

\* The fraction num/den in lowest terms
Fraction(num, den) ==
    LET g == GCD(IF num < 0 THEN -num ELSE num, den)
    IN [num |-> num \div g, den |-> den \div g]

\* float(param): None for a ValueError.  Decimal notation: digits, a point,
\* digits, one of the two runs of digits possibly empty (the texts here use
\* neither exponents nor inf / nan); the value is kept as an exact fraction.
float(param) ==
    LET text == strip(param)
        body == Unsigned(text)
        points == {i \in DOMAIN body : body[i] = "."}
        point == IF points = {} THEN Len(body) + 1 ELSE CHOOSE i \in points : TRUE
        whole == SubSeq(body, 1, point - 1)
        frac == SubSeq(body, point + 1, Len(body))
    IN IF Cardinality(points) <= 1 /\ AllDigits(whole) /\ AllDigits(frac)
          /\ whole \o frac # <<>>
       THEN Some(Fraction(Sign(text) * DigitsValue(whole \o frac),
                          Pow10(Len(frac))))
       ELSE None

\* cls(value) for the parsed parameter, or the ValueError of the failed parse
Parsed(cls, value, message, pos) ==
    IF value = None
    THEN Fail(ValueError(message, None, cls.chars), pos)
    ELSE IF cls.param_type = "int"
    THEN Ok(Prim(cls.name, Param(Unbox(value), 1)), pos)
    ELSE Ok(Prim(cls.name, Param(Unbox(value).num, Unbox(value).den)), pos)

\* (mutated: a class without a parameter ignores the parameter it is given)
createIgnoringParam(cls, param, pos) ==
    IF ~cls.has_param
    THEN Ok(Prim(cls.name, NoParam), pos)
    ELSE IF param = None
    THEN Fail(ValueError("requires a parameter", None, cls.chars), pos)
    ELSE IF cls.param_type = "int"
    THEN Parsed(cls, int(Unbox(param)), "requires an integer", pos)
    ELSE Parsed(cls, float(Unbox(param)), "requires a number", pos)

\* cls.create(param) at position pos of the text: Filter.create for a class
\* without a parameter, _parse_int_param / _parse_float_param (after
\* _require_param) for a class with one.
create(cls, param, pos) ==
    IF ~cls.has_param
    THEN IF param # None
         THEN Fail(ValueError("does not accept parameters", None, cls.chars), pos)
         ELSE Ok(Prim(cls.name, NoParam), pos)
    ELSE IF param = None
    THEN Fail(ValueError("requires a parameter", None, cls.chars), pos)
    ELSE IF cls.param_type = "int"
    THEN Parsed(cls, int(Unbox(param)), "requires an integer", pos)
    ELSE Parsed(cls, float(Unbox(param)), "requires a number", pos)

----------------------------------------------------------------------------
(* filters.py: parse_filter_spec, the parser of one -f / --filter option    *)

RECURSIVE SpecNameEndLetters(_, _)
\* (mutated: the name is a run of letters, the hyphen left out)
SpecNameEndLetters(spec, pos) ==
    IF pos < Len(spec) /\ isalpha(spec[pos + 1])
    THEN SpecNameEndLetters(spec, pos + 1)
    ELSE pos

RECURSIVE SpecNameEnd(_, _)
\* The end of the longest run of [a-z-] from pos: group 1 of the pattern
\* ^([a-z-]+)(?::(.+))?$
SpecNameEnd(spec, pos) ==
    IF pos < Len(spec) /\ (isalpha(spec[pos + 1]) \/ spec[pos + 1] = "-")
    THEN SpecNameEnd(spec, pos + 1)
    ELSE pos

\* re.match(r'^([a-z-]+)(?::(.+))?$', spec): the groups (name, param) of the
\* match, None when there is none.  `$` matches at the end and before a
\* newline that ends the text; `.` matches no newline.
SpecMatch(spec) ==
    LET name_end == SpecNameEnd(spec, 0)
        rest == SubSeq(spec, name_end + 1, Len(spec))
        body == IF rest # <<>> /\ rest[Len(rest)] = "\n"
                THEN SubSeq(rest, 1, Len(rest) - 1) ELSE rest
    IN IF name_end = 0 THEN None
       ELSE IF body = <<>>
       THEN Some([name |-> SubSeq(spec, 1, name_end), param |-> None])
       ELSE IF Head(body) = ":" /\ Len(body) > 1
               /\ \A i \in DOMAIN body : body[i] # "\n"
       THEN Some([name |-> SubSeq(spec, 1, name_end), param |-> Some(Tail(body))])
       ELSE None

\* parse_filter_spec(spec)
parse_filter_spec(spec) ==
    LET m == SpecMatch(spec)
    IN IF m = None
       THEN Fail(ValueError("invalid filter spec", None, spec), 0)
       ELSE IF Unbox(m).name \notin RegisteredNames
       THEN Fail(ValueError("unknown filter", None, Unbox(m).name), 0)
       ELSE create(FILTER_REGISTRY(Unbox(m).name), Unbox(m).param, Len(spec))

----------------------------------------------------------------------------
(* filters.py: FilterExpressionParser.  `pos` is self.pos, counted from 0. *)

\* self.pos < self.length and self.expr[self.pos] == ch
At(expr, pos, ch) == pos < Len(expr) /\ expr[pos + 1] = ch


RECURSIVE _skip_whitespace(_, _)
\* The position after _skip_whitespace()
_skip_whitespace(expr, pos) ==
    IF pos < Len(expr) /\ expr[pos + 1] \in Whitespace
    THEN _skip_whitespace(expr, pos + 1)
    ELSE pos

RECURSIVE NameEnd(_, _)
\* _parse_filter_name's first loop: letters, hyphens and digits
NameEnd(expr, pos) ==
    IF pos < Len(expr)
       /\ (isalpha(expr[pos + 1]) \/ expr[pos + 1] = "-" \/ isdigit(expr[pos + 1]))
    THEN NameEnd(expr, pos + 1)
    ELSE pos

RECURSIVE ParamEnd(_, _)
\* _parse_filter_name's second loop: anything until whitespace or operator
ParamEnd(expr, pos) ==
    IF pos < Len(expr) /\ expr[pos + 1] \notin Whitespace \cup {"+", "|", "(", ")"}
    THEN ParamEnd(expr, pos + 1)
    ELSE pos

\* FilterExpressionParser._parse_filter_name
_parse_filter_name(expr, pos) ==
    LET start == _skip_whitespace(expr, pos)
        name_end == NameEnd(expr, start)
        name == SubSeq(expr, start + 1, name_end)
        has_colon == At(expr, name_end, ":")
        param_start == name_end + 1
        end == IF has_colon THEN ParamEnd(expr, param_start) ELSE name_end
        param == IF has_colon THEN Some(SubSeq(expr, param_start + 1, end)) ELSE None
    IN IF name = <<>>
       THEN Fail(ValueError("expected filter name", Some(start), <<>>), start)
       ELSE IF name \notin RegisteredNames
       THEN Fail(ValueError("unknown filter", None, name), end)
       ELSE create(FILTER_REGISTRY(name), param, end)

\* (mutated: a lone operand of `|` is wrapped all the same)
OrOfAlways(filters) == OrFilter(filters)

\* _parse_or: `if len(filters) == 1: return filters[0]`, else OrFilter(filters)
OrOf(filters) == IF Len(filters) = 1 THEN filters[1] ELSE OrFilter(filters)

\* _parse_and: `if len(filters) == 1: return filters[0]`, else AndFilter(filters)
AndOf(filters) == IF Len(filters) = 1 THEN filters[1] ELSE AndFilter(filters)

RECURSIVE _parse_or(_, _)
RECURSIVE _parse_and(_, _)
RECURSIVE _parse_atom(_, _)
RECURSIVE ParseOrLoop(_, _, _)
RECURSIVE ParseAndLoop(_, _, _)
RECURSIVE OrAppend(_, _, _)
RECURSIVE AndAppend(_, _, _)

\* (mutated: an operand of `|` is a single atom)
OrOperandAtom(expr, pos) == _parse_atom(expr, pos)

\* _parse_or: each operand of `|` is parsed by _parse_and
OrOperand(expr, pos) == _parse_and(expr, pos)

\* The `while True` loop of _parse_or
ParseOrLoop(expr, pos, filters) ==
    LET p == _skip_whitespace(expr, pos)
    IN IF At(expr, p, "|")
       THEN OrAppend(expr, filters, OrOperand(expr, p + 1))
       ELSE Ok(OrOf(filters), p)

\* _parse_or past a self._parse_and() that did r: the operand joins the list
OrAppend(expr, filters, r) ==
    IF r.ok THEN ParseOrLoop(expr, r.pos, Append(filters, r.node)) ELSE r

\* FilterExpressionParser._parse_or
_parse_or(expr, pos) == OrAppend(expr, <<>>, OrOperand(expr, pos))

\* The `while True` loop of _parse_and
ParseAndLoop(expr, pos, filters) ==
    LET p == _skip_whitespace(expr, pos)
    IN IF At(expr, p, "+")
       THEN AndAppend(expr, filters, _parse_atom(expr, p + 1))
       ELSE Ok(AndOf(filters), p)

\* _parse_and past a self._parse_atom() that did r: the operand joins the list
AndAppend(expr, filters, r) ==
    IF r.ok THEN ParseAndLoop(expr, r.pos, Append(filters, r.node)) ELSE r

\* FilterExpressionParser._parse_and
_parse_and(expr, pos) == AndAppend(expr, <<>>, _parse_atom(expr, pos))

\* (mutated: the closing parenthesis is stepped over without a look at it)
CloseGroupUnchecked(expr, r) ==
    IF ~r.ok THEN r ELSE Ok(r.node, _skip_whitespace(expr, r.pos) + 1)

\* _parse_atom past the self._parse_or() of a parenthesized group, which did r
CloseGroup(expr, r) ==
    LET q == _skip_whitespace(expr, r.pos)
    IN IF ~r.ok THEN r
       ELSE IF q >= Len(expr) \/ expr[q + 1] # ")"
       THEN Fail(ValueError("missing closing parenthesis", None, <<>>), q)
       ELSE Ok(r.node, q + 1)

\* FilterExpressionParser._parse_atom
_parse_atom(expr, pos) ==
    LET p == _skip_whitespace(expr, pos)
    IN IF p >= Len(expr)
       THEN Fail(ValueError("unexpected end of expression", None, <<>>), p)
       ELSE IF expr[p + 1] = "("
       THEN CloseGroup(expr, _parse_or(expr, p + 1))
       ELSE _parse_filter_name(expr, p)

\* parse past self._parse_or(), which did r
EndOfInput(expr, r) ==
    LET p == _skip_whitespace(expr, r.pos)
    IN IF ~r.ok THEN r
       ELSE IF p < Len(expr)
       THEN Fail(ValueError("unexpected character", Some(p), <<expr[p + 1]>>), p)
       ELSE Ok(r.node, p)

\* FilterExpressionParser.parse
parse(expr) == EndOfInput(expr, _parse_or(expr, 0))

\* parse_filter_expression(expr)
parse_filter_expression(expr) == parse(expr)

----------------------------------------------------------------------------
(* The context and its cache in use: one behaviour is a sequence of runs of  *)
(* the program over the same cache directory, the clock and the remote data *)
(* moving in between.                                                       *)

Entry(st, key) == IF key \in DOMAIN st THEN Some(st[key]) ELSE None

NoOp == [op |-> "none", key |-> OtherKey, mid |-> 0, ttl |-> 0, memoHit |-> FALSE,
         calls |-> 0, raised |-> FALSE, value |-> None,
         fetched |-> None, before |-> None, max_dynamics |-> 0]

ZeroCounts == [m \in Mids |-> 0]

\* The remote service's data at each instant: every user's numbers differ from
\* every other user's and from the same user's at another instant.
StatAt(t) ==
    [m \in Mids |->
        [follower |-> 3000 * m + (IF t >= TTL_USER_ACTIVITY THEN 500 ELSE 0)
                               + (IF t >= TTL_USER_STAT THEN 500 ELSE 0),
         following |-> 100 * m]]

ActivityAt(t) ==
    [m \in Mids |->
        [is_deactivated |-> FALSE,
         posts |-> 4 * m + (IF t >= TTL_USER_ACTIVITY THEN 1 ELSE 0)
                         + (IF t >= TTL_USER_STAT THEN 1 ELSE 0),
         reposts |-> m,
         last_post_ts |-> Some(0)]]

\* No evaluation was made yet.
NoEval == [following |-> [mid |-> 0, attribute |-> 0], info |-> no_match,
           raised |-> FALSE, trace |-> <<>>]

\* Nothing was parsed yet.  `expr` is args.filter_expr and `filters` is
\* args.filters, each the text of a template over the texts a, b and c.
NoParse == [a |-> <<>>, b |-> <<>>, c |-> <<>>, template |-> <<>>, expr |-> <<>>,
            filters |-> <<>>, done |-> FALSE, outcome |-> Fail(NoError, 0)]

\* The arguments of a run that reads none of them: the cache in use and not
\* cleared, no posts to collect interactions from, no limit.
NoArgs == [no_cache |-> FALSE, clear_cache |-> FALSE, num_videos |-> 0,
           num_dynamics |-> 0, limit |-> 0]

Init ==
    /\ now = 0
    /\ remoteStat = StatAt(0)
    /\ remoteActivity = ActivityAt(0)
    /\ cacheOn \in BOOLEAN
    /\ store = EmptyDict
    /\ user_stats = EmptyDict
    /\ user_activity = EmptyDict
    /\ statFetches = ZeroCounts
    /\ actFetches = ZeroCounts
    /\ aborted = FALSE
    /\ closed = FALSE
    /\ last = NoOp
    /\ interacting_users = {}
    /\ args = NoArgs
    /\ pc = "apply"
    /\ filter_list = None
    /\ filter_mode = "and"
    /\ composite_filter = AndFilter(<<>>)
    /\ followings = <<>>
    /\ processed = 0
    /\ results = <<>>
    /\ evalOut = NoEval
    /\ parsed = NoParse

Live == ~aborted /\ ~closed

\* The clock advances, and the remote data with it.  The program is observed
\* when entries are first stored and when those of either TTL class expire.
Tick ==
    /\ \E t \in {0, TTL_USER_ACTIVITY, TTL_USER_STAT} :
        /\ t > now
        /\ now' = t
        /\ remoteStat' = StatAt(t)
        /\ remoteActivity' = ActivityAt(t)
    /\ last' = NoOp
    /\ UNCHANGED <<cacheOn, store, user_stats, user_activity, statFetches,
                   actFetches, aborted, closed>>
    /\ UNCHANGED nonCtxVars

\* What a caller of the context sees of a call.
Observe(op, mid, r) ==
    [NoOp EXCEPT !.op = op, !.mid = mid, !.memoHit = ~r.consulted,
                 !.calls = r.calls, !.raised = r.raised, !.value = r.value]

\* The context after a get_user_stat call that did r
CalledStat(mid, r) ==
    /\ store' = r.c.store
    /\ user_stats' = r.c.user_stats
    /\ statFetches' = r.c.statFetches
    /\ aborted' = r.raised
    /\ last' = Observe("get_user_stat", mid, r)

\* A predicate (or any caller) asks the context for a user's stat.
GetUserStat ==
    /\ Live
    /\ \E mid \in Mids, failing \in SUBSET FetchKinds :
        /\ statFetches[mid] < MaxFetchCount
        /\ CalledStat(mid, get_user_stat(Ctx(failing), mid))
    /\ UNCHANGED <<now, remoteStat, remoteActivity,
                   cacheOn, user_activity, actFetches, closed>>
    /\ UNCHANGED nonCtxVars

\* The context after a get_user_activity call that did r
CalledActivity(mid, max_dynamics, r) ==
    /\ store' = r.c.store
    /\ user_activity' = r.c.user_activity
    /\ actFetches' = r.c.actFetches
    /\ aborted' = r.raised
    /\ last' = [Observe("get_user_activity", mid, r)
                   EXCEPT !.max_dynamics = max_dynamics]

\* A predicate (or any caller) asks the context for a user's activity.
GetUserActivity ==
    /\ Live
    /\ \E mid \in Mids, md \in {DEFAULT_MAX_DYNAMICS}, failing \in SUBSET FetchKinds :
        /\ actFetches[mid] < MaxFetchCount
        /\ CalledActivity(mid, md, get_user_activity(Ctx(failing), mid, md))
    /\ UNCHANGED <<now, remoteStat, remoteActivity,
                   cacheOn, user_stats, statFetches, closed>>
    /\ UNCHANGED nonCtxVars

\* CachedDataFetcher.clear()
Clear ==
    /\ ~closed
    /\ store' = clear(store)
    /\ last' = [NoOp EXCEPT !.op = "clear"]
    /\ UNCHANGED <<now, remoteStat, remoteActivity,
                   cacheOn, user_stats, user_activity, statFetches, actFetches,
                   aborted, closed>>
    /\ UNCHANGED nonCtxVars

\* CachedDataFetcher.close(), from main's finally
Close ==
    /\ ~closed
    /\ store' = close(store)
    /\ closed' = TRUE
    /\ last' = [NoOp EXCEPT !.op = "close"]
    /\ UNCHANGED <<now, remoteStat, remoteActivity,
                   cacheOn, user_stats, user_activity, statFetches, actFetches,
                   aborted>>
    /\ UNCHANGED nonCtxVars

\* The next run of the program: _setup_cache builds the CachedDataFetcher
\* (--no-cache: without a store; --clear-cache: cleared), _run_analysis a fresh
\* FilterContext.
NewRun ==
    /\ closed
    /\ \E no_cache \in BOOLEAN, clear_cache \in BOOLEAN :
        /\ cacheOn' = ~no_cache
        /\ store' = IF ~no_cache /\ clear_cache THEN EmptyDict ELSE store
    /\ user_stats' = EmptyDict
    /\ user_activity' = EmptyDict
    /\ statFetches' = ZeroCounts
    /\ actFetches' = ZeroCounts
    /\ aborted' = FALSE
    /\ closed' = FALSE
    /\ last' = NoOp
    /\ UNCHANGED <<now, remoteStat, remoteActivity>>
    /\ UNCHANGED nonCtxVars

Next ==
    \/ Tick
    \/ GetUserStat
    \/ GetUserActivity
    \/ Clear
    \/ Close
    \/ NewRun

Spec == Init /\ [][Next]_vars

\* C1: within one FilterContext, whatever calls of get_user_stat and
\* get_user_activity the predicates issue, the data source's stat fetch and its
\* activity fetch are each invoked at most once per user id, with the
\* persistent cache enabled, empty or disabled.
C1_FetchAtMostOncePerId ==
    \A m \in Mids : statFetches[m] <= 1 /\ actFetches[m] <= 1

\* A repeated call for an id that was fetched with the cache disabled.
C1_Witness ==
    /\ ~cacheOn
    /\ last.op = "get_user_stat" /\ last.mid = 1 /\ last.memoHit
    /\ statFetches[1] = 1
    /\ actFetches[1] = 1

----------------------------------------------------------------------------
(* CachedDataFetcher on its own: any caller, any fetcher, the clock moving. *)

\* The clock advances.  The fetcher is observed just before and at the expiry
\* of entries of either TTL class stored at time 0.
FetcherTick ==
    /\ \E t \in {0, 1, TTL_USER_ACTIVITY - 1, TTL_USER_ACTIVITY,
                  TTL_USER_STAT - 1, TTL_USER_STAT} :
        /\ t > now
        /\ now' = t
        /\ remoteStat' = StatAt(t)
        /\ remoteActivity' = ActivityAt(t)
    /\ last' = NoOp
    /\ UNCHANGED <<cacheOn, store, user_stats, user_activity, statFetches,
                   actFetches, aborted, closed>>
    /\ UNCHANGED nonCtxVars

\* The users whose records are fetched through the fetcher here.
FetcherMids == {m \in Mids : \A n \in Mids : m <= n}

\* What the caller of get_or_fetch sees, and the entry the key had before.
ObserveFetch(key, ttl, fetcher, r) ==
    [NoOp EXCEPT !.op = "get_or_fetch", !.key = key, !.ttl = ttl,
                 !.calls = r.calls, !.raised = r.raised, !.value = r.value,
                 !.fetched = fetcher.value, !.before = Entry(store, key)]

CallGetOrFetch(key, fetcher, ttl) ==
    LET r == get_or_fetch(store, key, fetcher, ttl)
    IN /\ store' = r.store
       /\ last' = ObserveFetch(key, ttl, fetcher, r)

\* get_or_fetch as FilterContext.get_user_stat calls it
FetchStat ==
    /\ ~closed
    /\ \E mid \in FetcherMids, failing \in SUBSET FetchKinds :
        CallGetOrFetch(make_user_stat_key(mid),
                       client_get_user_stat(failing, mid), TTL_USER_STAT)
    /\ UNCHANGED <<now, remoteStat, remoteActivity, cacheOn, user_stats,
                   user_activity, statFetches, actFetches, aborted, closed>>
    /\ UNCHANGED nonCtxVars

\* get_or_fetch as FilterContext.get_user_activity calls it
FetchActivity ==
    /\ ~closed
    /\ \E mid \in FetcherMids, failing \in SUBSET FetchKinds :
        CallGetOrFetch(make_user_activity_key(mid),
                       client_get_user_activity(failing, mid, DEFAULT_MAX_DYNAMICS),
                       TTL_USER_ACTIVITY)
    /\ UNCHANGED <<now, remoteStat, remoteActivity, cacheOn, user_stats,
                   user_activity, statFetches, actFetches, aborted, closed>>
    /\ UNCHANGED nonCtxVars

\* What a fetcher handed to get_or_fetch by some other caller may do: raise,
\* return None, return a value.
OtherFetchers ==
    {[raised |-> TRUE, value |-> None]}
    \cup {[raised |-> FALSE, value |-> v] : v \in {None, Some("blob")}}

\* get_or_fetch called by any other caller
FetchOther ==
    /\ ~closed
    /\ \E fetcher \in OtherFetchers :
        CallGetOrFetch(OtherKey, fetcher, TTL_USER_ACTIVITY)
    /\ UNCHANGED <<now, remoteStat, remoteActivity, cacheOn, user_stats,
                   user_activity, statFetches, actFetches, aborted, closed>>
    /\ UNCHANGED nonCtxVars

\* CachedDataFetcher(cache) is constructed again, with or without a store.
Reopen ==
    /\ closed
    /\ cacheOn' \in BOOLEAN
    /\ closed' = FALSE
    /\ last' = NoOp
    /\ UNCHANGED <<now, remoteStat, remoteActivity, store, user_stats,
                   user_activity, statFetches, actFetches, aborted>>
    /\ UNCHANGED nonCtxVars

FetcherNext ==
    \/ FetcherTick
    \/ FetchStat
    \/ FetchActivity
    \/ FetchOther
    \/ Clear
    \/ Close
    \/ Reopen

SpecFetcher == Init /\ [][FetcherNext]_vars

\* The key held an entry, of whatever value, that had not expired at time t.
PresentUnexpired(before, t) ==
    before # None /\ Unbox(before).expire_time > t

\* C2: with caching enabled, get_or_fetch never calls the fetcher when the key
\* is present and unexpired, whatever value is stored under it; otherwise it
\* calls the fetcher exactly once, stores the result under the key with expiry
\* now + ttl and returns it.
C2_GetOrFetchContract ==
    (cacheOn /\ last.op = "get_or_fetch") =>
        IF PresentUnexpired(last.before, now)
        THEN last.calls = 0
        ELSE /\ last.calls = 1
             /\ ~last.raised =>
                    /\ last.value = last.fetched
                    /\ last.key \in DOMAIN store
                    /\ store[last.key] = [value |-> last.fetched,
                                          expire_time |-> now + last.ttl]

\* C3: a CachedDataFetcher without a backing store calls the fetcher exactly
\* once per get_or_fetch and returns its result, and no sequence of
\* get_or_fetch, clear and close calls on it creates or changes store state.
C3_DisabledCachePassThrough ==
    /\ []((~cacheOn /\ last.op = "get_or_fetch") =>
            /\ last.calls = 1
            /\ ~last.raised => last.value = last.fetched)
    /\ [][(~cacheOn /\ ~cacheOn') => store' = store]_vars

\* get_or_fetch returned a fetched value without a store, while the cache
\* directory holds entries of an earlier fetcher.
C3_Witness ==
    /\ ~cacheOn
    /\ store # EmptyDict
    /\ last.op = "get_or_fetch" /\ last.calls = 1 /\ ~last.raised
    /\ last.value # None

DataKeys == {make_user_stat_key(m) : m \in Mids}
            \cup {make_user_activity_key(m) : m \in Mids}

TTLOf(key) == IF key[1] = "user_stat" THEN TTL_USER_STAT ELSE TTL_USER_ACTIVITY

----------------------------------------------------------------------------
(* cli.py: apply_filter_expression, one run of the program over its list of *)
(* followings with a parsed filter expression.                              *)

MaxChildren == 2

\* The primitive filters of the expressions evaluated here: one that needs no
\* remote data, one that needs the stat, one that needs the activity.
EvalPrims == {Prim("not-following-back", NoParam),
              Prim("below-followers", Param(5000, 1)),
              Prim("deactivated", NoParam)}

\* The nested composites of the expressions evaluated here.
EvalInner == {AndFilter(<<>>),
              OrFilter(<<>>),
              AndFilter(<<Prim("not-following-back", NoParam),
                          Prim("below-followers", Param(5000, 1))>>),
              OrFilter(<<Prim("deactivated", NoParam),
                         AndFilter(<<Prim("below-followers", Param(5000, 1))>>)>>)}

SeqsUpTo(S, n) == UNION {[1..k -> S] : k \in 0..n}

\* The composite filters a run may be given.
FilterTrees ==
    {AndFilter(l) : l \in SeqsUpTo(EvalPrims \cup EvalInner, MaxChildren)}
    \cup {OrFilter(l) : l \in SeqsUpTo(EvalPrims \cup EvalInner, MaxChildren)}

\* What the remote service knows of a user's activity.
ActivityProfile(is_deactivated) ==
    IF is_deactivated
    THEN [is_deactivated |-> TRUE, posts |-> 0, reposts |-> 0, last_post_ts |-> None]
    ELSE [is_deactivated |-> FALSE, posts |-> 12, reposts |-> 9,
          last_post_ts |-> Some(0)]

\* A run 400 days after the last posts, over two followings: user 1 does not
\* follow back, user 2 does; at most one of them is deactivated.
InitEval ==
    /\ now = 400 * 86400
    /\ remoteStat \in [Mids -> StatRecords]
    /\ remoteActivity \in {[m \in Mids |-> ActivityProfile(m = d)] : d \in Mids \cup {0}}
    /\ cacheOn \in BOOLEAN
    /\ store = EmptyDict
    /\ user_stats = EmptyDict
    /\ user_activity = EmptyDict
    /\ statFetches = ZeroCounts
    /\ actFetches = ZeroCounts
    /\ aborted = FALSE
    /\ closed = FALSE
    /\ last = NoOp
    /\ interacting_users = {}
    /\ args = NoArgs
    /\ pc = "apply"
    /\ filter_list = None
    /\ filter_mode = "and"
    /\ composite_filter \in FilterTrees
    /\ followings = <<[mid |-> 1, attribute |-> 2], [mid |-> 2, attribute |-> 6]>>
    /\ processed = 0
    /\ results = <<>>
    /\ evalOut = NoEval
    /\ parsed = NoParse

\* The FilterResult apply_filter_expression builds from a match
ExpressionResult(following, match_info) ==
    [following |-> following,
     matched_filters |-> match_info.filter_names,
     details |-> IF Truthy(match_info.detail)
                 THEN DictSet(EmptyDict, "_combined", Unbox(match_info.detail))
                 ELSE EmptyDict]

\* The loop body of apply_filter_expression past
\* `match_info = composite_filter.matches(following, ctx)`, which did r
Applied(following, r) ==
    /\ store' = r.s.c.store
    /\ user_stats' = r.s.c.user_stats
    /\ user_activity' = r.s.c.user_activity
    /\ statFetches' = r.s.c.statFetches
    /\ actFetches' = r.s.c.actFetches
    /\ aborted' = r.raised
    /\ processed' = IF r.raised THEN processed ELSE processed + 1
    /\ results' = IF ~r.raised /\ r.info.matched
                  THEN Append(results, ExpressionResult(following, r.info))
                  ELSE results
    /\ evalOut' = [following |-> following, info |-> r.info,
                   raised |-> r.raised, trace |-> r.s.trace]

\* One iteration of apply_filter_expression's loop over the followings.
ApplyFilterExpressionStep ==
    /\ Live
    /\ processed < Len(followings)
    /\ \E failing \in SUBSET FetchKinds :
        Applied(followings[processed + 1],
                matches(composite_filter, followings[processed + 1],
                        [c |-> Ctx(failing), trace |-> <<>>], <<>>))
    /\ last' = NoOp
    /\ UNCHANGED <<now, remoteStat, remoteActivity, cacheOn, closed,
                   interacting_users, composite_filter, filter_list, filter_mode,
                   followings, parsed, args, pc>>

EvalNext ==
    \/ ApplyFilterExpressionStep
    \/ Close

SpecEval == InitEval /\ [][EvalNext]_vars

----------------------------------------------------------------------------
(* Reading the trace of an evaluation *)

RECURSIVE NodeAt(_, _)
\* The filter found at `path` (child indexes from the root) of expression f
NodeAt(f, path) ==
    IF path = <<>> THEN f ELSE NodeAt(f.filters[Head(path)], Tail(path))

IsPrefix(p, q) == Len(p) <= Len(q) /\ SubSeq(q, 1, Len(p)) = p

Has(t, ev, path) == \E i \in DOMAIN t : t[i].ev = ev /\ t[i].path = path
IdxOf(t, ev, path) == CHOOSE i \in DOMAIN t : t[i].ev = ev /\ t[i].path = path

\* The paths of the filters whose matches() was entered / has returned
Entered(t) == {t[i].path : i \in {j \in DOMAIN t : t[j].ev = "eval"}}
Completed(t) == {t[i].path : i \in {j \in DOMAIN t : t[j].ev = "ret"}}

\* The MatchInfo the filter at path returned
InfoOf(t, path) == t[IdxOf(t, "ret", path)].info

\* The indexes of the children of the filter at p, in the order in which their
\* matches() was entered
ChildEvalOrder(t, p) ==
    LET IsChildEval(e) == e.ev = "eval" /\ Len(e.path) = Len(p) + 1 /\ IsPrefix(p, e.path)
        evs == SelectSeq(t, IsChildEval)
    IN [j \in 1..Len(evs) |-> evs[j].path[Len(p) + 1]]

\* The MatchInfos the children of the filter at p returned, in child order
\* (once all n of them have returned)
ChildInfos(t, p, n) == [j \in 1..n |-> InfoOf(t, Append(p, j))]

IsMatched(info) == info.matched

RECURSIVE ConcatNames(_)
\* The filter_names of the given MatchInfos, one list after the other
ConcatNames(infos) ==
    IF infos = <<>> THEN <<>>
    ELSE ConcatNames(SubSeq(infos, 1, Len(infos) - 1)) \o infos[Len(infos)].filter_names

RECURSIVE WithSeparators(_)
\* The given strings in order, "; " between neighbours
WithSeparators(ds) ==
    IF Len(ds) = 1 THEN ds[1]
    ELSE WithSeparators(SubSeq(ds, 1, Len(ds) - 1)) \o <<Lit("; ")>> \o ds[Len(ds)]

\* The detail a composite owes to the given MatchInfos: their non-empty
\* details joined with "; ", None when there is none
JoinedDetail(infos) ==
    LET HasDetail(info) == info.detail # None /\ Unbox(info.detail) # <<>>
        with == SelectSeq(infos, HasDetail)
        ds == [j \in 1..Len(with) |-> Unbox(with[j].detail)]
    IN IF ds = <<>> THEN None ELSE Some(WithSeparators(ds))

\* C5: an AndFilter evaluates its children left to right, each after the one
\* before it has returned a match; as soon as a child returns no-match the
\* AndFilter returns no-match at once: no later child is evaluated and no
\* data-source fetch of a later child (or of anything below it) occurs.
C5_AndShortCircuit ==
    LET t == evalOut.trace
    IN \A p \in Entered(t) :
        LET f == NodeAt(composite_filter, p)
            n == Len(f.filters)
            order == ChildEvalOrder(t, p)
        IN f.name = "and" =>
            /\ order = [j \in 1..Len(order) |-> j]
            /\ \A j \in 2..Len(order) :
                /\ Has(t, "ret", Append(p, j - 1))
                /\ IsMatched(InfoOf(t, Append(p, j - 1)))
                /\ IdxOf(t, "ret", Append(p, j - 1)) < IdxOf(t, "eval", Append(p, j))
            /\ \A j \in 1..n :
                (Has(t, "ret", Append(p, j)) /\ ~IsMatched(InfoOf(t, Append(p, j)))) =>
                    /\ \A k \in (j + 1)..n, i \in DOMAIN t :
                            ~IsPrefix(Append(p, k), t[i].path)
                    /\ IdxOf(t, "ret", Append(p, j)) < Len(t)
                    /\ t[IdxOf(t, "ret", Append(p, j)) + 1] = Event("ret", p, no_match, "", 0)

\* The first child of the expression did not match user 2, and the second
\* child, which needs the activity of user 2, never had it fetched.
C5_Witness ==
    /\ composite_filter = AndFilter(<<Prim("not-following-back", NoParam),
                                      Prim("deactivated", NoParam)>>)
    /\ evalOut.following.mid = 2
    /\ ~evalOut.raised /\ ~evalOut.info.matched
    /\ Has(evalOut.trace, "ret", <<1>>)
    /\ ~Has(evalOut.trace, "eval", <<2>>)
    /\ 2 \notin DOMAIN user_activity
    /\ actFetches[2] = 0

\* C6: an OrFilter whose evaluation returns has evaluated every child exactly
\* once, in list order, whatever the earlier children returned (an evaluation
\* that an exception ends has evaluated the children up to the raising one,
\* in list order).
C6_OrEvaluatesEveryChild ==
    LET t == evalOut.trace
    IN \A p \in Entered(t) :
        LET f == NodeAt(composite_filter, p)
            n == Len(f.filters)
            order == ChildEvalOrder(t, p)
        IN f.name = "or" =>
            /\ order = [j \in 1..Len(order) |-> j]
            /\ Len(order) <= n
            /\ p \in Completed(t) => Len(order) = n
            /\ \A j \in 2..Len(order) :
                /\ Has(t, "ret", Append(p, j - 1))
                /\ IdxOf(t, "ret", Append(p, j - 1)) < IdxOf(t, "eval", Append(p, j))

\* The first child of an OrFilter matched user 1, and the second child was
\* evaluated all the same: the stat it needs was fetched.
C6_Witness ==
    /\ composite_filter = OrFilter(<<Prim("not-following-back", NoParam),
                                     Prim("below-followers", Param(5000, 1))>>)
    /\ evalOut.following.mid = 1
    /\ ~evalOut.raised
    /\ IsMatched(InfoOf(evalOut.trace, <<1>>))
    /\ Has(evalOut.trace, "ret", <<2>>)
    /\ Has(evalOut.trace, "fetch", <<2>>)
    /\ statFetches[1] = 1

\* C7: an OrFilter's result is matched exactly when at least one child
\* returned matched (composites with no children among them); its
\* filter_names are the matching children's filter_names concatenated in child
\* order, its detail their non-empty details joined with "; ".
C7_OrMatchesIffAChildMatches ==
    LET t == evalOut.trace
    IN \A p \in Completed(t) :
        LET f == NodeAt(composite_filter, p)
            matching == SelectSeq(ChildInfos(t, p, Len(f.filters)), IsMatched)
        IN f.name = "or" =>
            /\ InfoOf(t, p).matched <=> matching # <<>>
            /\ InfoOf(t, p).filter_names = ConcatNames(matching)
            /\ InfoOf(t, p).detail = JoinedDetail(matching)

\* C8: an AndFilter all of whose children match returns matched, its
\* filter_names the children's filter_names concatenated in child order, its
\* detail the children's non-empty details joined with "; ", None when no
\* child has one.
C8_AndFullMatch ==
    LET t == evalOut.trace
    IN \A p \in Completed(t) :
        LET f == NodeAt(composite_filter, p)
            n == Len(f.filters)
        IN (f.name = "and"
            /\ \A j \in 1..n : /\ Has(t, "ret", Append(p, j))
                               /\ IsMatched(InfoOf(t, Append(p, j)))) =>
            /\ InfoOf(t, p).matched
            /\ InfoOf(t, p).filter_names = ConcatNames(ChildInfos(t, p, n))
            /\ InfoOf(t, p).detail = JoinedDetail(ChildInfos(t, p, n))

\* An AndFilter of a primitive and a nested AndFilter of two, all matching
\* user 1: three names, three details.
C8_Witness ==
    /\ composite_filter =
         AndFilter(<<Prim("deactivated", NoParam),
                     AndFilter(<<Prim("not-following-back", NoParam),
                                 Prim("below-followers", Param(5000, 1))>>)>>)
    /\ evalOut.following.mid = 1
    /\ ~evalOut.raised /\ evalOut.info.matched
    /\ evalOut.info.filter_names = <<"deactivated", "not-following-back",
                                     "below-followers">>
    /\ evalOut.info.detail # None
    /\ Len(Unbox(evalOut.info.detail)) = 7

----------------------------------------------------------------------------
(* cli.py: main hands the expression of --filter-expr to                    *)
(* parse_filter_expression.                                                 *)

\* The texts of primitive filters: every registered filter, with a parameter
\* where it takes one.
RegisteredPrimTexts ==
    {<<"n", "o", "t", "-", "f", "o", "l", "l", "o", "w", "i", "n", "g", "-", "b", "a", "c", "k">>,
     <<"m", "u", "t", "u", "a", "l">>,
     <<"b", "e", "l", "o", "w", "-", "f", "o", "l", "l", "o", "w", "e", "r", "s", ":", "5", "0", "0", "0">>,
     <<"a", "b", "o", "v", "e", "-", "f", "o", "l", "l", "o", "w", "e", "r", "s", ":", "1", "0", "0", "0", "0", "0">>,
     <<"n", "o", "-", "i", "n", "t", "e", "r", "a", "c", "t", "i", "o", "n">>,
     <<"t", "o", "o", "-", "m", "a", "n", "y", "-", "f", "o", "l", "l", "o", "w", "i", "n", "g", "s", ":", "2", "0", "0", "0">>,
     <<"i", "n", "a", "c", "t", "i", "v", "e", ":", "3", "6", "5">>,
     <<"r", "e", "p", "o", "s", "t", "-", "r", "a", "t", "i", "o", ":", "0", ".", "8">>,
     <<"d", "e", "a", "c", "t", "i", "v", "a", "t", "e", "d">>,
     <<"n", "o", "-", "p", "o", "s", "t", "s">>}

\* Texts that name no filter or carry the wrong parameter.
RejectedPrimTexts ==
    {<<"u", "n", "k", "n", "o", "w", "n">>,
     <<"i", "n", "a", "c", "t", "i", "v", "e">>,
     <<"m", "u", "t", "u", "a", "l", ":", "1">>,
     <<"i", "n", "a", "c", "t", "i", "v", "e", ":", "x">>}

\* Expressions over three primitives, written A, B and C.
T ==
    [AandB_orC |->  \* "A + B | C"
        <<"A", " ", "+", " ", "B", " ", "|", " ", "C">>,
     parAandB_orC |->  \* "(A + B) | C"
        <<"(", "A", " ", "+", " ", "B", ")", " ", "|", " ", "C">>,
     AorB_andC |->  \* "A | B + C"
        <<"A", " ", "|", " ", "B", " ", "+", " ", "C">>,
     Aor_parBandC |->  \* "A | (B + C)"
        <<"A", " ", "|", " ", "(", "B", " ", "+", " ", "C", ")">>,
     A |->  \* "A"
        <<"A">>,
     parA |->  \* "(A)"
        <<"(", "A", ")">>,
     parparA |->  \* "((A))"
        <<"(", "(", "A", ")", ")">>,
     spaceA |->  \* " A "
        <<" ", "A", " ">>,
     AandB |->  \* "A + B"
        <<"A", " ", "+", " ", "B">>,
     AorB |->  \* "A | B"
        <<"A", " ", "|", " ", "B">>,
     parAandB |->  \* "(A + B)"
        <<"(", "A", " ", "+", " ", "B", ")">>,
     parA_and_parB |->  \* "(A) + (B)"
        <<"(", "A", ")", " ", "+", " ", "(", "B", ")">>,
     dense |->  \* "A+B|C"
        <<"A", "+", "B", "|", "C">>,
     Aand_parBorC |->  \* "A + (B | C)"
        <<"A", " ", "+", " ", "(", "B", " ", "|", " ", "C", ")">>,
     parAorB_andC |->  \* "(A | B) + C"
        <<"(", "A", " ", "|", " ", "B", ")", " ", "+", " ", "C">>,
     AandBandC |->  \* "A + B + C"
        <<"A", " ", "+", " ", "B", " ", "+", " ", "C">>,
     AorBorC |->  \* "A | B | C"
        <<"A", " ", "|", " ", "B", " ", "|", " ", "C">>,
     empty |->  \* ""
        <<>>,
     Aand |->  \* "A +"
        <<"A", " ", "+">>,
     unclosed |->  \* "(A + B"
        <<"(", "A", " ", "+", " ", "B">>,
     AB |->  \* "A B"
        <<"A", " ", "B">>,
     Aclose |->  \* "A)"
        <<"A", ")">>,
     parens |->  \* "()"
        <<"(", ")">>,
     andA |->  \* "+ A"
        <<"+", " ", "A">>]

RECURSIVE Render(_, _, _, _)
\* The text of a template over the primitives' texts a, b, c
Render(template, a, b, c) ==
    IF template = <<>> THEN <<>>
    ELSE (CASE Head(template) = "A" -> a
            [] Head(template) = "B" -> b
            [] Head(template) = "C" -> c
            [] OTHER -> <<Head(template)>>)
         \o Render(Tail(template), a, b, c)

InitParse ==
    /\ now = 0
    /\ remoteStat = StatAt(0)
    /\ remoteActivity = ActivityAt(0)
    /\ cacheOn = TRUE
    /\ store = EmptyDict
    /\ user_stats = EmptyDict
    /\ user_activity = EmptyDict
    /\ statFetches = ZeroCounts
    /\ actFetches = ZeroCounts
    /\ aborted = FALSE
    /\ closed = FALSE
    /\ last = NoOp
    /\ interacting_users = {}
    /\ args = NoArgs
    /\ pc = "main"
    /\ filter_list = None
    /\ filter_mode = "and"
    /\ composite_filter = AndFilter(<<>>)
    /\ followings = <<>>
    /\ processed = 0
    /\ results = <<>>
    /\ evalOut = NoEval
    /\ \E a, b, c \in RegisteredPrimTexts \cup RejectedPrimTexts,
          t \in {T[k] : k \in DOMAIN T} :
         parsed = [NoParse EXCEPT !.a = a, !.b = b, !.c = c, !.template = t,
                                  !.expr = Render(t, a, b, c)]

\* main past parse_filter_expression(args.filter_expr), which did r
ParsedExpression(r) ==
    /\ parsed' = [parsed EXCEPT !.done = TRUE, !.outcome = r]
    /\ composite_filter' = IF r.ok THEN r.node ELSE composite_filter
    /\ aborted' = ~r.ok

\* main, expression mode: the expression is parsed; a ValueError ends the
\* program.
ParseFilterExpression ==
    /\ Live
    /\ ~parsed.done
    /\ parsed.expr # <<>>  \* `if args.filter_expr:`
    /\ ParsedExpression(parse_filter_expression(parsed.expr))
    /\ last' = NoOp
    /\ UNCHANGED <<now, remoteStat, remoteActivity, cacheOn, store, user_stats,
                   user_activity, statFetches, actFetches, closed,
                   interacting_users, filter_list, filter_mode, followings,
                   processed, results, evalOut, args, pc>>

ParseNext ==
    \/ ParseFilterExpression

SpecParse == InitParse /\ [][ParseNext]_vars

\* What two parses have in common when they yield the same predicate tree
SameTree(o1, o2) == o1.ok = o2.ok /\ o1.node = o2.node

\* The parse of one primitive's text on its own
Primitive(text) == _parse_filter_name(text, 0)

\* C9: for all primitives a, b, c, "a + b | c" parses to the tree of
\* "(a + b) | c", which is OrFilter([AndFilter([a, b]), c]), and "a | b + c"
\* to the tree of "a | (b + c)", which is OrFilter([a, AndFilter([b, c])]):
\* `+` binds tighter than `|` (a text that is rejected is rejected in both).
C9_PlusBindsTighter ==
    LET a == parsed.a
        b == parsed.b
        c == parsed.c
        registered == {a, b, c} \subseteq RegisteredPrimTexts
    IN parsed.done =>
        /\ parsed.template = T.AandB_orC =>
            /\ SameTree(parsed.outcome,
                        parse_filter_expression(Render(T.parAandB_orC, a, b, c)))
            /\ registered =>
                /\ parsed.outcome.ok
                /\ parsed.outcome.node =
                     OrFilter(<<AndFilter(<<Primitive(a).node, Primitive(b).node>>),
                                Primitive(c).node>>)
        /\ parsed.template = T.AorB_andC =>
            /\ SameTree(parsed.outcome,
                        parse_filter_expression(Render(T.Aor_parBandC, a, b, c)))
            /\ registered =>
                /\ parsed.outcome.ok
                /\ parsed.outcome.node =
                     OrFilter(<<Primitive(a).node,
                                AndFilter(<<Primitive(b).node, Primitive(c).node>>)>>)

\* "mutual | inactive:365 + repost-ratio:0.8" was parsed.
C9_Witness ==
    /\ parsed.done
    /\ parsed.template = T.AorB_andC
    /\ parsed.outcome.ok
    /\ parsed.outcome.node =
         OrFilter(<<Prim("mutual", NoParam),
                    AndFilter(<<Prim("inactive", Param(365, 1)),
                                Prim("repost-ratio", Param(4, 5))>>)>>)

RECURSIVE Nodes(_)
\* The nodes of a predicate tree
Nodes(f) == {f} \cup UNION {Nodes(f.filters[i]) : i \in DOMAIN f.filters}

\* The expressions of a single operand
SingleOperand == {T.A, T.parA, T.parparA, T.spaceA}

\* C10: every AndFilter or OrFilter node of a tree the parser returns has at
\* least two children; an expression of a single operand, parenthesized or
\* not, yields that operand itself.
C10_NoSingleChildComposite ==
    (parsed.done /\ parsed.outcome.ok) =>
        /\ \A f \in Nodes(parsed.outcome.node) :
              f.name \in {"and", "or"} => Len(f.filters) >= 2
        /\ parsed.template \in SingleOperand =>
              /\ Primitive(parsed.a).ok
              /\ parsed.outcome.node = Primitive(parsed.a).node
              /\ parsed.outcome.node.name \notin {"and", "or"}

\* "((inactive:365))" was parsed, to the InactiveFilter itself.
C10_Witness ==
    /\ parsed.done
    /\ parsed.template = T.parparA
    /\ parsed.outcome.ok
    /\ parsed.outcome.node = Prim("inactive", Param(365, 1))

----------------------------------------------------------------------------
(* cli.py: main parses either the expression of --filter-expr or the specs  *)
(* of the -f / --filter options.                                            *)

\* One filter spec over a name A and a parameter B
S ==
    [name |->  \* "A"
        <<"A">>,
     name_param |->  \* "A:B"
        <<"A", ":", "B">>,
     name_colon |->  \* "A:"
        <<"A", ":">>,
     name_space_param |->  \* "A :B"
        <<"A", " ", ":", "B">>,
     name_colon_space |->  \* "A: B"
        <<"A", ":", " ", "B">>,
     leading_space |->  \* " A:B"
        <<" ", "A", ":", "B">>,
     trailing_space |->  \* "A:B "
        <<"A", ":", "B", " ">>,
     trailing_newline |->  \* "A:B" and a newline
        <<"A", ":", "B", "\n">>]

\* The program is given one spec, as the expression or as an -f option (one
\* more option, "mutual", may follow it), or none: the name of the spec is a
\* registered one or "unknown", its parameter one of 365, 0.8, 1, +5 and x.
InitArgs ==
    /\ now = 0
    /\ remoteStat = StatAt(0)
    /\ remoteActivity = ActivityAt(0)
    /\ cacheOn = TRUE
    /\ store = EmptyDict
    /\ user_stats = EmptyDict
    /\ user_activity = EmptyDict
    /\ statFetches = ZeroCounts
    /\ actFetches = ZeroCounts
    /\ aborted = FALSE
    /\ closed = FALSE
    /\ last = NoOp
    /\ interacting_users = {}
    /\ args = NoArgs
    /\ pc = "main"
    /\ composite_filter = None
    /\ filter_list = None
    /\ filter_mode \in {"and", "or"}
    /\ followings = <<>>
    /\ processed = 0
    /\ results = <<>>
    /\ evalOut = NoEval
    /\ \/ parsed = NoParse
       \/ \E a \in RegisteredNames \cup {<<"u", "n", "k", "n", "o", "w", "n">>},
             b \in {<<"3", "6", "5">>, <<"0", ".", "8">>, <<"1">>, <<"+", "5">>, <<"x">>},
             t \in {S[k] : k \in DOMAIN S} :
             \/ parsed = [NoParse EXCEPT !.a = a, !.b = b, !.template = t,
                                         !.expr = Render(t, a, b, <<>>)]
             \/ \E more \in {<<>>, << <<"m", "u", "t", "u", "a", "l">> >>} :
                  parsed = [NoParse EXCEPT !.a = a, !.b = b, !.template = t,
                                           !.filters = <<Render(t, a, b, <<>>)>> \o more]

\* _parse_filters(filter_specs): what parse_filter_spec does of each spec;
\* the loop ends at the first ValueError.
_parse_filters(filter_specs) ==
    [i \in DOMAIN filter_specs |-> parse_filter_spec(filter_specs[i])]

\* (mutated: a spec that raises is left out and the program goes on)
ParsedFiltersLenient(rs) ==
    LET IsOk(r) == r.ok
        kept == SelectSeq(rs, IsOk)
    IN /\ parsed' = [parsed EXCEPT !.done = TRUE,
                                   !.outcome = IF kept = rs /\ rs # <<>> THEN rs[Len(rs)]
                                               ELSE Fail(NoError, 0)]
       /\ aborted' = FALSE
       /\ filter_list' = Some([i \in DOMAIN kept |-> kept[i].node])

\* main past _collect_filter_specs and _parse_filters, which did rs: without
\* a spec, or at the first spec that raised, SystemExit ends the program.
ParsedFilters(rs) ==
    LET raised == {i \in DOMAIN rs : ~rs[i].ok}
        first == CHOOSE i \in raised : \A j \in raised : i <= j
    IN IF rs = <<>>
       THEN /\ parsed' = [parsed EXCEPT !.done = TRUE,
                            !.outcome = Fail(ValueError("at least one filter is required",
                                                        None, <<>>), 0)]
            /\ aborted' = TRUE
            /\ filter_list' = filter_list
       ELSE IF raised # {}
       THEN /\ parsed' = [parsed EXCEPT !.done = TRUE, !.outcome = rs[first]]
            /\ aborted' = TRUE
            /\ filter_list' = filter_list
       ELSE /\ parsed' = [parsed EXCEPT !.done = TRUE, !.outcome = rs[Len(rs)]]
            /\ aborted' = FALSE
            /\ filter_list' = Some([i \in DOMAIN rs |-> rs[i].node])

\* main, simple mode: the specs are collected and parsed.
ParseFilters ==
    /\ Live
    /\ ~parsed.done
    /\ parsed.expr = <<>>  \* the else of `if args.filter_expr:`
    /\ ParsedFilters(_parse_filters(parsed.filters))
    /\ last' = NoOp
    /\ UNCHANGED <<now, remoteStat, remoteActivity, cacheOn, store, user_stats,
                   user_activity, statFetches, actFetches, closed,
                   interacting_users, composite_filter, filter_mode, followings,
                   processed, results, evalOut, args, pc>>

ArgsNext ==
    \/ ParseFilterExpression
    \/ ParseFilters

SpecArgs == InitArgs /\ [][ArgsNext]_vars

\* The text under parse, and the class its name is registered for
SpecText == Render(parsed.template, parsed.a, parsed.b, <<>>)
SpecClass == FILTER_REGISTRY(parsed.a)

\* What each parser does of the text: the parser the run went through by what
\* the run did, the other one by its definition.
FlatOutcome ==
    IF parsed.filters = <<>> THEN parse_filter_spec(SpecText)
    ELSE IF filter_list = None THEN parsed.outcome
    ELSE Ok(Unbox(filter_list)[1], Len(SpecText))
ExprOutcome ==
    IF parsed.expr # <<>> THEN parsed.outcome ELSE parse_filter_expression(SpecText)

\* The class's constructor takes the parameter
AcceptedParam(cls, b) == create(cls, Some(b), 0).ok
\* The parameter holds no whitespace and none of + | ( )
PlainParam(b) == \A i \in DOMAIN b : b[i] \notin Whitespace \cup {"+", "|", "(", ")"}

\* Both parsers return a filter of the class
BothReturn(cls) ==
    /\ FlatOutcome.ok /\ FlatOutcome.node.name = cls.name
    /\ ExprOutcome.ok /\ ExprOutcome.node.name = cls.name

\* C11 as stated: for every entry of ALL_FILTERS, its name, followed by
\* `:param` for any parameter the class accepts when it takes one, is
\* accepted by parse_filter_spec and by parse_filter_expression, both
\* returning a filter of that class.
C11_BothParsersAcceptAnyValidParam ==
    (/\ parsed.done
     /\ parsed.a \in RegisteredNames
     /\ \/ ~SpecClass.has_param /\ parsed.template = S.name
        \/ /\ SpecClass.has_param /\ parsed.template = S.name_param
           /\ AcceptedParam(SpecClass, parsed.b))
    => BothReturn(SpecClass)

\* C11, amended: for every entry of ALL_FILTERS, its name, followed by
\* `:param` when it takes one, for any parameter the class accepts that holds
\* no whitespace and none of + | ( ), is accepted by parse_filter_spec and by
\* parse_filter_expression, both returning a filter of that class.
C11_BothParsersAcceptRegistered ==
    (/\ parsed.done
     /\ parsed.a \in RegisteredNames
     /\ \/ ~SpecClass.has_param /\ parsed.template = S.name
        \/ /\ SpecClass.has_param /\ parsed.template = S.name_param
           /\ AcceptedParam(SpecClass, parsed.b) /\ PlainParam(parsed.b))
    => BothReturn(SpecClass)

\* "repost-ratio:0.8" went through parse_filter_spec, and
\* parse_filter_expression returns the same filter for it.
C11_Witness ==
    /\ parsed.done
    /\ parsed.filters # <<>>
    /\ parsed.template = S.name_param
    /\ parsed.b = <<"0", ".", "8">>
    /\ filter_list # None
    /\ Unbox(filter_list)[1] = Prim("repost-ratio", Param(4, 5))
    /\ ExprOutcome.ok
    /\ ExprOutcome.node = Prim("repost-ratio", Param(4, 5))

\* C12: every parse error of the expression parser (unknown filter name,
\* missing closing parenthesis, trailing unconsumed input, empty filter name
\* at an expected position) carries the input position where it was detected.
C12_ParseErrorsCarryPosition ==
    (/\ parsed.done
     /\ parsed.expr # <<>>
     /\ ~parsed.outcome.ok
     /\ parsed.outcome.error.kind \in {"unknown filter", "missing closing parenthesis",
                                       "unexpected character", "expected filter name"})
    => parsed.outcome.error.at # None

\* The parser raised a ValueError of the kind and returned no filter; the run
\* ended with it.
Rejected(o, kind) ==
    /\ ~o.ok
    /\ o.error.kind = kind
    /\ aborted /\ filter_list = None /\ composite_filter = None

NotSpace(token) == token \notin Whitespace
Tight(template) == SelectSeq(template, NotSpace)

\* C14: whitespace inserted or removed between two adjacent tokens (NAME, ':',
\* PARAM, '+', '|', '(', ')') never changes the outcome of
\* parse_filter_expression: the text parses to what the same tokens parse to
\* with no whitespace between them, or is rejected as they are.
C14_WhitespaceInsignificant ==
    (parsed.done /\ parsed.expr # <<>> /\ PlainParam(parsed.b))
    => SameTree(parsed.outcome,
                parse_filter_expression(Render(Tight(parsed.template),
                                               parsed.a, parsed.b, <<>>)))

----------------------------------------------------------------------------
(* cli.py: _run_analysis applies the parsed filters to the followings, in   *)
(* expression mode (apply_filter_expression) or simple mode (apply_filters). *)

MaxFilters == 3

\* (mutated: the name is put in front of the list)
add_matchFront(result, filter_name, detail) ==
    [result EXCEPT !.matched_filters = <<filter_name>> \o @,
                   !.details = IF Truthy(detail)
                               THEN DictSet(@, filter_name, Unbox(detail))
                               ELSE @]

\* FilterResult.add_match
add_match(result, filter_name, detail) ==
    [result EXCEPT !.matched_filters = Append(@, filter_name),
                   !.details = IF Truthy(detail)
                               THEN DictSet(@, filter_name, Unbox(detail))
                               ELSE @]

RECURSIVE FiltersLoop(_, _, _, _, _)
RECURSIVE FiltersNext(_, _, _, _, _)

\* apply_filters: `for f in filters:` from the i-th filter on
FiltersLoop(filter_seq, i, following, s, result) ==
    IF i > Len(filter_seq)
    THEN [raised |-> FALSE, s |-> s, result |-> result]
    ELSE FiltersNext(filter_seq, i, following, result,
                     matches(filter_seq[i], following, s, <<i>>))

\* (mutated: an exception of f.matches is swallowed and the filter taken not
\* to match)
FiltersNextSwallowing(filter_seq, i, following, result, r) ==
    FiltersLoop(filter_seq, i + 1, following, r.s,
                IF ~r.raised /\ r.info.matched
                THEN add_match(result, filter_seq[i].name, r.info.detail)
                ELSE result)

\* (mutated: in mode "and" the loop over the filters ends at the first filter
\* that does not match)
FiltersNextStopping(filter_seq, i, following, result, r) ==
    IF r.raised
    THEN [raised |-> TRUE, s |-> r.s, result |-> result]
    ELSE IF ~r.info.matched /\ filter_mode = "and"
    THEN [raised |-> FALSE, s |-> r.s, result |-> result]
    ELSE FiltersLoop(filter_seq, i + 1, following, r.s,
                     IF r.info.matched
                     THEN add_match(result, filter_seq[i].name, r.info.detail)
                     ELSE result)

\* The body of that loop past `match_info = f.matches(following, ctx)`,
\* which did r
FiltersNext(filter_seq, i, following, result, r) ==
    IF r.raised
    THEN [raised |-> TRUE, s |-> r.s, result |-> result]
    ELSE FiltersLoop(filter_seq, i + 1, following, r.s,
                     IF r.info.matched
                     THEN add_match(result, filter_seq[i].name, r.info.detail)
                     ELSE result)

\* (mutated: mode "and" includes a user as mode "or" does)
FiltersAppliedAnyMatch(following, r) ==
    /\ store' = r.s.c.store
    /\ user_stats' = r.s.c.user_stats
    /\ user_activity' = r.s.c.user_activity
    /\ statFetches' = r.s.c.statFetches
    /\ actFetches' = r.s.c.actFetches
    /\ aborted' = r.raised
    /\ processed' = IF r.raised THEN processed ELSE processed + 1
    /\ results' = IF ~r.raised /\ r.result.matched_filters # <<>>
                  THEN Append(results, r.result)
                  ELSE results
    /\ evalOut' = [following |-> following, info |-> no_match,
                   raised |-> r.raised, trace |-> r.s.trace]

\* The loop body of apply_filters past the loop over the filters, which did
\* r: in mode "and" the user is included when all filters matched, in mode
\* "or" when one did.
FiltersApplied(following, r) ==
    /\ store' = r.s.c.store
    /\ user_stats' = r.s.c.user_stats
    /\ user_activity' = r.s.c.user_activity
    /\ statFetches' = r.s.c.statFetches
    /\ actFetches' = r.s.c.actFetches
    /\ aborted' = r.raised
    /\ processed' = IF r.raised THEN processed ELSE processed + 1
    /\ results' = IF /\ ~r.raised
                     /\ IF filter_mode = "and"
                        THEN Len(r.result.matched_filters) = Len(Unbox(filter_list))
                        ELSE r.result.matched_filters # <<>>
                  THEN Append(results, r.result)
                  ELSE results
    /\ evalOut' = [following |-> following, info |-> no_match,
                   raised |-> r.raised, trace |-> r.s.trace]

\* One iteration of apply_filters' loop over the followings.
ApplyFiltersStep ==
    /\ Live
    /\ processed < Len(followings)
    /\ \E failing \in SUBSET FetchKinds :
        FiltersApplied(followings[processed + 1],
                       FiltersLoop(Unbox(filter_list), 1, followings[processed + 1],
                                   [c |-> Ctx(failing), trace |-> <<>>],
                                   \* result = FilterResult(following=following)
                                   [following |-> followings[processed + 1],
                                    matched_filters |-> <<>>,
                                    details |-> EmptyDict]))
    /\ last' = NoOp
    /\ UNCHANGED <<now, remoteStat, remoteActivity, cacheOn, closed,
                   interacting_users, composite_filter, filter_list, filter_mode,
                   followings, parsed, args, pc>>

\* A run as InitEval starts it, given either a filter expression or a list
\* of one to MaxFilters primitive filters and a mode.
InitApply ==
    /\ now = 400 * 86400
    /\ remoteStat \in [Mids -> StatRecords]
    /\ remoteActivity \in {[m \in Mids |-> ActivityProfile(m = d)] : d \in Mids \cup {0}}
    /\ cacheOn \in BOOLEAN
    /\ store = EmptyDict
    /\ user_stats = EmptyDict
    /\ user_activity = EmptyDict
    /\ statFetches = ZeroCounts
    /\ actFetches = ZeroCounts
    /\ aborted = FALSE
    /\ closed = FALSE
    /\ last = NoOp
    /\ interacting_users = {}
    /\ args = NoArgs
    /\ pc = "apply"
    /\ \/ /\ composite_filter \in FilterTrees
          /\ filter_list = None
          /\ filter_mode = "and"
       \/ /\ composite_filter = None
          /\ \E l \in SeqsUpTo(EvalPrims, MaxFilters) :
                l # <<>> /\ filter_list = Some(l)
          /\ filter_mode \in {"and", "or"}
    /\ followings = <<[mid |-> 1, attribute |-> 2], [mid |-> 2, attribute |-> 6]>>
    /\ processed = 0
    /\ results = <<>>
    /\ evalOut = NoEval
    /\ parsed = NoParse

\* _run_analysis: `if composite_filter:` apply_filter_expression, else
\* apply_filters; main's finally closes the cache.
ApplyNext ==
    \/ composite_filter # None /\ ApplyFilterExpressionStep
    \/ composite_filter = None /\ ApplyFiltersStep
    \/ Close

SpecApply == InitApply /\ [][ApplyNext]_vars

\* The data source was called in the last evaluation and left nothing in the
\* context's memo: the call raised.
FetchRaised ==
    \E i \in DOMAIN evalOut.trace :
        LET e == evalOut.trace[i]
        IN /\ e.ev = "fetch"
           /\ \/ e.kind = "stat" /\ e.mid \notin DOMAIN user_stats
              \/ e.kind = "activity" /\ e.mid \notin DOMAIN user_activity

\* What apply_filters / apply_filter_expression returns: the result list once
\* the loop over the followings has ended, nothing when an exception left it.
ReturnedResults ==
    IF ~aborted /\ processed = Len(followings) THEN Some(results) ELSE None

\* C15: in apply_filters and in apply_filter_expression, when the data source
\* raises during the evaluation of one subject, the error leaves the
\* evaluation and the run (nothing catches it), no later subject is
\* evaluated and no data-source call is made any more, and no result list is
\* returned, the results of the earlier subjects included.
C15_DataSourceErrorAbortsRun ==
    /\ [](FetchRaised => /\ evalOut.raised
                         /\ aborted
                         /\ evalOut.following = followings[processed + 1]
                         /\ ReturnedResults = None)
    /\ [][FetchRaised => UNCHANGED <<processed, results, evalOut, aborted,
                                     statFetches, actFetches>>]_vars

\* The data source raised on the second following, in simple mode, the first
\* one having matched: its result is not returned.
C15_Witness ==
    /\ FetchRaised
    /\ composite_filter = None
    /\ aborted
    /\ processed = 1
    /\ Len(results) = 1

\* The filter evaluated at `path`: a path of simple mode starts with the
\* filter's place in the list.
FilterAt(path) ==
    IF composite_filter = None
    THEN NodeAt(Unbox(filter_list)[Head(path)], Tail(path))
    ELSE NodeAt(composite_filter, path)

\* The paths of the filters that enclose the one at `path`
Enclosing(path) ==
    {SubSeq(path, 1, k) : k \in (IF composite_filter = None THEN 1 ELSE 0)..(Len(path) - 1)}

\* The names of the primitive filters that matched in the evaluation with
\* trace t, every composite around them having matched too, in the order in
\* which they returned
MatchedPrimitives(t) ==
    LET Counts(e) ==
            /\ e.ev = "ret" /\ e.info.matched
            /\ FilterAt(e.path).name \notin {AndFilter(<<>>).name, OrFilter(<<>>).name}
            /\ \A p \in Enclosing(e.path) : Has(t, "ret", p) /\ InfoOf(t, p).matched
        rets == SelectSeq(t, Counts)
    IN [j \in 1..Len(rets) |-> rets[j].info.filter_names[1]]

\* The primitive filters return in the order in which they are written: the
\* path of each is to the right of the path of the one before.
RECURSIVE LeftOf(_, _)
LeftOf(p, q) ==
    /\ p # <<>> /\ q # <<>>
    /\ \/ Head(p) < Head(q)
       \/ Head(p) = Head(q) /\ LeftOf(Tail(p), Tail(q))
WrittenOrder(t) ==
    LET IsPrimRet(e) ==
            /\ e.ev = "ret"
            /\ FilterAt(e.path).name \notin {AndFilter(<<>>).name, OrFilter(<<>>).name}
        rets == SelectSeq(t, IsPrimRet)
    IN \A i \in 1..(Len(rets) - 1) : LeftOf(rets[i].path, rets[i + 1].path)

\* The subject of the evaluation with trace t belongs in the results: the
\* expression matched, or all (mode "and") or some (mode "or") of the listed
\* filters did.
SubjectMatches(t) ==
    IF composite_filter # None THEN InfoOf(t, <<>>).matched
    ELSE IF filter_mode = "and"
    THEN \A i \in DOMAIN Unbox(filter_list) : InfoOf(t, <<i>>).matched
    ELSE \E i \in DOMAIN Unbox(filter_list) : InfoOf(t, <<i>>).matched

\* C20: in simple mode and in expression mode the subjects are evaluated one
\* at a time in input order (each evaluation fetches the data of its subject
\* only); the results are in the order of the followings, one per matching
\* subject; and the matched_filters of each result are the names of the
\* matching primitive filters in the order in which they are declared
\* (simple mode) or written in the expression from left to right.
C20_EvaluationAndResultOrder ==
    [][processed' # processed
       => /\ processed' = processed + 1
          /\ evalOut'.following = followings[processed']
          /\ \A i \in DOMAIN evalOut'.trace :
                evalOut'.trace[i].ev = "fetch"
                => evalOut'.trace[i].mid = followings[processed'].mid
          /\ WrittenOrder(evalOut'.trace)
          /\ IF SubjectMatches(evalOut'.trace)
             THEN /\ Len(results') = Len(results) + 1
                  /\ SubSeq(results', 1, Len(results)) = results
                  /\ results'[Len(results')].following = followings[processed']
                  /\ results'[Len(results')].matched_filters
                        = MatchedPrimitives(evalOut'.trace)
             ELSE results' = results]_vars

\* Both followings matched `below-followers:5000 | not-following-back` given
\* as two -f options in mode "or": the first by both filters.
C20_Witness ==
    /\ composite_filter = None
    /\ processed = 2
    /\ Len(results) = 2
    /\ results[1].following = followings[1]
    /\ results[2].following = followings[2]
    /\ results[1].matched_filters = <<"below-followers", "not-following-back">>
    /\ results[2].matched_filters = <<"below-followers">>

----------------------------------------------------------------------------
(* filters.py: the primitive filters on the stat and on the activity, in a  *)
(* run whose expression is one such filter, or two of them joined.           *)

\* What these runs are given.  filters: thresholds of 0 and 5, 2 days,
\* ratios of 0.8, 1 and 1.5, and two filters joined.  stats: the stat records
\* of the remote service, with counts below, at and above 5, or lacking one of
\* the two fields.  profiles: the activity of a user as the remote service
\* knows it, deactivated or not, without posts or with 4 of which 0, 3 or 4
\* are reposts, the last post at time 0 or of unknown time.  instants: 2 days
\* after the last post, a second later, a second before 3 days, and 3 days.
PrimInputs ==
    [filters |->
        {Prim("below-followers", Param(0, 1)), Prim("below-followers", Param(5, 1)),
         Prim("above-followers", Param(5, 1)), Prim("too-many-followings", Param(5, 1)),
         Prim("inactive", Param(2, 1)),
         Prim("repost-ratio", Param(4, 5)), Prim("repost-ratio", Param(1, 1)),
         Prim("repost-ratio", Param(3, 2)),
         Prim("deactivated", NoParam), Prim("no-posts", NoParam),
         AndFilter(<<Prim("inactive", Param(2, 1)), Prim("below-followers", Param(5, 1))>>),
         OrFilter(<<Prim("inactive", Param(2, 1)), Prim("repost-ratio", Param(1, 1))>>)},
     stats |->
        {[follower |-> v, following |-> 5] : v \in {4, 5, 6}}
        \cup {[follower |-> 5, following |-> v] : v \in {4, 6}}
        \cup {[follower |-> 5], [following |-> 5]},
     profiles |->
        {p \in [is_deactivated : BOOLEAN, posts : {0, 4}, reposts : {0, 3, 4},
                last_post_ts : {None, Some(0)}] : p.reposts <= p.posts},
     instants |-> {2 * 86400, 2 * 86400 + 1, 3 * 86400 - 1, 3 * 86400}]

\* The run goes over two followings that are the same user.
InitPrim ==
    /\ now \in PrimInputs.instants
    /\ \E sr \in PrimInputs.stats : remoteStat = [m \in Mids |-> sr]
    /\ \E p \in PrimInputs.profiles : remoteActivity = [m \in Mids |-> p]
    /\ cacheOn \in BOOLEAN
    /\ store = EmptyDict
    /\ user_stats = EmptyDict
    /\ user_activity = EmptyDict
    /\ statFetches = ZeroCounts
    /\ actFetches = ZeroCounts
    /\ aborted = FALSE
    /\ closed = FALSE
    /\ last = NoOp
    /\ interacting_users = {}
    /\ args = NoArgs
    /\ pc = "apply"
    /\ composite_filter \in PrimInputs.filters
    /\ filter_list = None
    /\ filter_mode = "and"
    /\ followings = <<[mid |-> 1, attribute |-> 2], [mid |-> 1, attribute |-> 2]>>
    /\ processed = 0
    /\ results = <<>>
    /\ evalOut = NoEval
    /\ parsed = NoParse

\* time.time() moves on while the program runs.
ClockTick ==
    /\ Live
    /\ \E t \in PrimInputs.instants : t > now /\ now' = t
    /\ last' = NoOp
    /\ UNCHANGED <<remoteStat, remoteActivity, cacheOn, store, user_stats,
                   user_activity, statFetches, actFetches, aborted, closed>>
    /\ UNCHANGED nonCtxVars

PrimNext ==
    \/ ApplyFilterExpressionStep
    \/ ClockTick
    \/ Close

SpecPrim == InitPrim /\ [][PrimNext]_vars

\* The step evaluated the run's filter on a following, and the evaluation
\* returned.
Evaluated == processed' = processed + 1

\* C16: Inactive(days) matches a subject exactly when its activity record is
\* deactivated, or else it has no posts, or else the time of the last post is
\* known and now - last_post_time > days * 86400 seconds; the detail is that
\* of the first of the three conditions that holds.
C16_InactiveMatchesByElapsedSeconds ==
    [][(Evaluated /\ composite_filter.name = "inactive")
       => LET activity == Unbox(user_activity'[evalOut'.following.mid])
              days == Unbox(composite_filter.param).num
              info == evalOut'.info
              elapsed == /\ activity.last_post_ts # None
                         /\ now - Unbox(activity.last_post_ts) > days * 86400
          IN /\ info.matched <=> \/ activity.is_deactivated
                                 \/ activity.total_dynamics = 0
                                 \/ elapsed
             /\ activity.is_deactivated
                => info.detail = Some(<<Lit("account deactivated")>>)
             /\ (~activity.is_deactivated /\ activity.total_dynamics = 0)
                => info.detail = Some(<<Lit("no posts at all")>>)
             /\ (~activity.is_deactivated /\ activity.total_dynamics # 0 /\ elapsed)
                => /\ info.detail # None
                   /\ Unbox(info.detail)[1] = Lit("no update for over ")]_vars

\* C17: RepostRatio(ratio) with a ratio of 1 or more never matches an
\* activity record in which 0 <= repost_count <= total posts.
C17_RatioOfOneOrMoreNeverMatches ==
    (/\ composite_filter # None
     /\ composite_filter.name = "repost-ratio"
     /\ Unbox(composite_filter.param).num >= Unbox(composite_filter.param).den
     /\ evalOut.trace # <<>> /\ ~evalOut.raised)
    => LET activity == Unbox(user_activity[evalOut.following.mid])
       IN (0 <= activity.repost_count /\ activity.repost_count <= activity.total_dynamics)
          => ~evalOut.info.matched

\* The stat record the context holds for the subject of the last evaluation,
\* and the value a threshold filter named `name` observes in it
ObservedValue(name) ==
    LET stat == Unbox(user_stats[evalOut.following.mid])
        field == IF name = "too-many-followings" THEN "following" ELSE "follower"
    IN IF field \in DOMAIN stat THEN stat[field] ELSE 0

\* C18: a below-threshold stat filter matches exactly when the observed value
\* is strictly less than the threshold, an above-threshold one exactly when
\* it is strictly greater; a value equal to the threshold matches neither; a
\* record that lacks the field counts as value 0; the detail of a match
\* contains the observed value.
C18_ThresholdsAreStrict ==
    (/\ composite_filter # None
     /\ composite_filter.name \in {"below-followers", "above-followers",
                                    "too-many-followings"}
     /\ evalOut.trace # <<>> /\ ~evalOut.raised)
    => LET value == ObservedValue(composite_filter.name)
           threshold == Unbox(composite_filter.param).num
           info == evalOut.info
       IN /\ composite_filter.name = "below-followers"
             => (info.matched <=> value < threshold)
          /\ composite_filter.name # "below-followers"
             => (info.matched <=> value > threshold)
          /\ value = threshold => ~info.matched
          /\ info.matched
             => \E i \in DOMAIN Unbox(info.detail) : Unbox(info.detail)[i] = Num(value)

\* below-followers:5 was evaluated on a user whose stat record has no
\* `follower`: it matched, with 0 in the detail.
C18_Witness ==
    /\ composite_filter = Prim("below-followers", Param(5, 1))
    /\ evalOut.trace # <<>> /\ ~evalOut.raised
    /\ "follower" \notin DOMAIN Unbox(user_stats[evalOut.following.mid])
    /\ evalOut.info.matched
    /\ Unbox(evalOut.info.detail)[3] = Num(0)

\* C19: the same filter evaluated twice on the same subject with the same
\* FilterContext returns the same MatchInfo both times, and the second
\* evaluation calls the data source for nothing.
C19_ReevaluationIsIdempotent ==
    [][(processed = 1 /\ processed' = 2 /\ followings[1] = followings[2])
       => /\ evalOut'.info = evalOut.info
          /\ \A i \in DOMAIN evalOut'.trace : evalOut'.trace[i].ev # "fetch"]_vars

----------------------------------------------------------------------------
(* cli.py: main, from the parsing of the filters to the closing of the cache *)

\* _needs_interaction_data (mutated: composites are not looked into)
_needs_interaction_dataShallow(filter_obj) == filter_obj.name = "no-interaction"

RECURSIVE _needs_interaction_data(_)
\* _needs_interaction_data(filter_obj): the filter is no-interaction, or a
\* composite one of whose filters needs the data.
_needs_interaction_data(filter_obj) ==
    IF filter_obj.name = "no-interaction" THEN TRUE
    ELSE IF filter_obj.name \in {"and", "or"}
    THEN \E i \in DOMAIN filter_obj.filters :
            _needs_interaction_data(filter_obj.filters[i])
    ELSE FALSE

\* collect_interacting_users(client, my_mid, num_videos, num_dynamics), the
\* data source knowing `remote.videos` to have interacted with the videos
\* and `remote.dynamics` with the dynamics: the users found and the
\* collections requested of the data source.
collect_interacting_users(remote, num_videos, num_dynamics) ==
    [users |-> (IF num_videos > 0 THEN remote.videos ELSE {})
               \cup (IF num_dynamics > 0 THEN remote.dynamics ELSE {}),
     requests |-> (IF num_videos > 0 THEN 1 ELSE 0)
                  + (IF num_dynamics > 0 THEN 1 ELSE 0)]

\* The program starts with its arguments read: a filter expression or a list
\* of up to two -f specs, some of them malformed ("(A + B", "mutual:") or of
\* an unknown name, and a disk cache that holds
\* user 1's stat from an earlier run.  The data source lists two followings;
\* user 2 is deactivated.
InitMain ==
    /\ now = 400 * 86400
    /\ remoteStat = [m \in Mids |-> [follower |-> 3000 * m, following |-> 100]]
    /\ remoteActivity = [m \in Mids |-> ActivityProfile(m = 2)]
    /\ cacheOn = FALSE
    /\ store = DictSet(EmptyDict, make_user_stat_key(1),
                       [value |-> Some([follower |-> 2900, following |-> 100]),
                        expire_time |-> 400 * 86400 + TTL_USER_STAT - 60])
    /\ user_stats = EmptyDict
    /\ user_activity = EmptyDict
    /\ statFetches = ZeroCounts
    /\ actFetches = ZeroCounts
    /\ aborted = FALSE
    /\ closed = FALSE
    /\ last = NoOp
    /\ interacting_users = {}
    /\ args \in [no_cache : BOOLEAN, clear_cache : BOOLEAN, num_videos : {0, 2},
                 num_dynamics : {-2, 0, 1}, limit : {0, 1}]
    /\ pc = "main"
    /\ composite_filter = None
    /\ filter_list = None
    /\ filter_mode \in {"and", "or"}
    /\ followings = <<>>
    /\ processed = 0
    /\ results = <<>>
    /\ evalOut = NoEval
    /\ \E a \in {<<"n", "o", "t", "-", "f", "o", "l", "l", "o", "w", "i", "n", "g", "-", "b", "a", "c", "k">>, <<"n", "o", "-", "i", "n", "t", "e", "r", "a", "c", "t", "i", "o", "n">>, <<"u", "n", "k", "n", "o", "w", "n">>,
                 <<"m", "u", "t", "u", "a", "l", ":">>},
          c \in {<<"n", "o", "-", "i", "n", "t", "e", "r", "a", "c", "t", "i", "o", "n">>, <<"b", "e", "l", "o", "w", "-", "f", "o", "l", "l", "o", "w", "e", "r", "s", ":", "5", "0", "0", "0">>} :
          \/ \E t \in {T.A, T.Aand_parBorC, T.unclosed} :
               parsed = [NoParse EXCEPT !.a = a, !.b = <<"d", "e", "a", "c", "t", "i", "v", "a", "t", "e", "d">>, !.c = c, !.template = t,
                                        !.expr = Render(t, a, <<"d", "e", "a", "c", "t", "i", "v", "a", "t", "e", "d">>, c)]
          \/ \E specs \in {<<>>, <<a>>, <<a, c>>} :
               parsed = [NoParse EXCEPT !.a = a, !.c = c, !.filters = specs]

\* main: _setup_cache(args), once the filters are parsed.  --no-cache gives a
\* fetcher without a store and leaves the disk alone; --clear-cache empties
\* the store that was opened.  (load_allow_list follows; the model has no
\* allow list.)
SetupCache ==
    /\ Live
    /\ pc = "main"
    /\ parsed.done
    /\ cacheOn' = ~args.no_cache
    /\ store' = IF ~args.no_cache /\ args.clear_cache THEN EmptyDict ELSE store
    /\ pc' = "_run_analysis"
    /\ last' = [NoOp EXCEPT !.op = "_setup_cache"]
    /\ UNCHANGED <<now, remoteStat, remoteActivity, user_stats, user_activity,
                   statFetches, actFetches, aborted, closed,
                   interacting_users, composite_filter, filter_list, filter_mode,
                   followings, processed, results, evalOut, parsed, args>>

\* _run_analysis up to the call of apply_filter_expression or apply_filters:
\* the interactions are collected if a filter needs them and there are posts
\* to collect them from, the context is built and the followings are fetched
\* (`if limit and len(followings) >= limit: break`).  A request the data
\* source fails ends the run.
RunAnalysis ==
    /\ Live
    /\ pc = "_run_analysis"
    /\ \E raised \in BOOLEAN, videos \in {{}, {1}} :
        LET filter_seq ==  \* `filters or []`
                IF filter_list = None THEN <<>> ELSE Unbox(filter_list)
            needs_interactions ==
                IF composite_filter # None
                THEN _needs_interaction_data(composite_filter)
                ELSE \E i \in DOMAIN filter_seq :
                        filter_seq[i].name = "no-interaction"
            collected ==
                IF needs_interactions /\ args.num_videos + args.num_dynamics > 0
                THEN collect_interacting_users([videos |-> videos, dynamics |-> {2}],
                                               args.num_videos, args.num_dynamics)
                ELSE [users |-> {}, requests |-> 0]
            listed == <<[mid |-> 1, attribute |-> 2], [mid |-> 2, attribute |-> 6]>>
        IN /\ interacting_users' = IF raised THEN interacting_users ELSE collected.users
           /\ followings' = IF raised THEN followings
                            ELSE IF args.limit # 0 THEN SubSeq(listed, 1, args.limit)
                            ELSE listed
           /\ pc' = IF raised THEN pc ELSE "apply"
           /\ aborted' = raised
           /\ last' = [NoOp EXCEPT !.op = "_run_analysis", !.calls = collected.requests,
                                   !.raised = raised]
    /\ user_stats' = EmptyDict
    /\ user_activity' = EmptyDict
    /\ UNCHANGED <<now, remoteStat, remoteActivity, cacheOn, store,
                   statFetches, actFetches, closed,
                   composite_filter, filter_list, filter_mode,
                   processed, results, evalOut, parsed, args>>

\* (mutated: the cache is closed at any moment after its set-up, not in a
\* finally clause around the analysis)
MainNextClosingEarly ==
    \/ pc = "main" /\ ParseFilterExpression
    \/ pc = "main" /\ ParseFilters
    \/ SetupCache
    \/ RunAnalysis
    \/ pc = "apply" /\ composite_filter # None /\ ApplyFilterExpressionStep
    \/ pc = "apply" /\ composite_filter = None /\ ApplyFiltersStep
    \/ pc # "main" /\ Close

\* main: the filters are parsed, the cache is set up, the analysis runs, and
\* the finally clause closes the cache when the analysis has returned or
\* raised.
MainNext ==
    \/ pc = "main" /\ ParseFilterExpression
    \/ pc = "main" /\ ParseFilters
    \/ SetupCache
    \/ RunAnalysis
    \/ pc = "apply" /\ composite_filter # None /\ ApplyFilterExpressionStep
    \/ pc = "apply" /\ composite_filter = None /\ ApplyFiltersStep
    \/ /\ pc # "main"
       /\ aborted \/ (pc = "apply" /\ processed = Len(followings))
       /\ Close

SpecMain == InitMain /\ [][MainNext]_vars

\* The program keeps running while it has a step to take: weak fairness of
\* MainNext, WF_vars(MainNext), with ENABLED <<MainNext>>_vars written out as
\* the condition under which one of its steps can be taken.
SpecMainFair ==
    /\ SpecMain
    /\ \/ []<>~(\/ pc = "main" /\ Live
                \/ pc = "_run_analysis" /\ Live
                \/ pc = "apply" /\ Live /\ processed < Len(followings)
                \/ /\ pc # "main"
                   /\ aborted \/ (pc = "apply" /\ processed = Len(followings))
                   /\ ~closed)
       \/ []<><<MainNext>>_vars

\* C21: in every execution of main that has set up the cache and entered the
\* analysis, the cache is eventually closed, whether the analysis returned or
\* raised; it is closed by main's finally when the analysis has returned or
\* raised, and from then on nothing happens: no second close() and no call
\* of the context, hence no get_or_fetch.
C21_CacheClosedOnceAtTheEnd ==
    /\ (pc # "main") ~> closed
    /\ [][/\ closed => UNCHANGED vars
          /\ (~closed /\ closed') =>
                /\ last'.op = "close"
                /\ aborted \/ (pc = "apply" /\ processed = Len(followings))
                /\ UNCHANGED <<store, statFetches, actFetches>>]_vars

\* The analysis raised on the second following, after a fetch for the first,
\* and the cache was closed.
C21_Witness ==
    /\ closed
    /\ aborted
    /\ pc = "apply"
    /\ processed = 1
    /\ evalOut.raised
    /\ \E m \in Mids : statFetches[m] + actFetches[m] > 0

----------------------------------------------------------------------------
(* The memo maps of a context *)

\* C22: within a run, an entry of a memo map is never overwritten or removed
\* by any operation (calls of the context, the clock, clear(), close()), and
\* a get_user_stat / get_user_activity for an id the memo holds returns the
\* memo's record without reaching get_or_fetch: no call of the data source
\* and the persistent store untouched, whatever the store holds for that id.
C22_MemoEntriesAreFinal ==
    [][~(closed /\ ~closed') =>
        /\ \A m \in DOMAIN user_stats :
              /\ m \in DOMAIN user_stats'
              /\ user_stats'[m] = user_stats[m]
              /\ (last'.op = "get_user_stat" /\ last'.mid = m) =>
                    /\ last'.value = user_stats[m]
                    /\ last'.memoHit /\ last'.calls = 0 /\ ~last'.raised
                    /\ UNCHANGED <<store, statFetches, actFetches>>
        /\ \A m \in DOMAIN user_activity :
              /\ m \in DOMAIN user_activity'
              /\ user_activity'[m] = user_activity[m]
              /\ (last'.op = "get_user_activity" /\ last'.mid = m) =>
                    /\ last'.value = user_activity[m]
                    /\ last'.memoHit /\ last'.calls = 0 /\ ~last'.raised
                    /\ UNCHANGED <<store, statFetches, actFetches>>]_vars

\* The activity of user 1 was served from the memo although the store no
\* longer serves the entry (cleared or expired) and the data source has newer
\* data.
C22_Witness ==
    /\ cacheOn
    /\ last.op = "get_user_activity" /\ last.mid = 1 /\ last.memoHit
    /\ CacheGet(store, make_user_activity_key(1)) = None
    /\ now = TTL_USER_STAT
    /\ Unbox(last.value).total_dynamics # Min(remoteActivity[1].posts, last.max_dynamics)

----------------------------------------------------------------------------
(* The interaction data of a run *)

\* The filters of the run hold a no-interaction filter, at any depth.
HoldsNoInteraction ==
    IF composite_filter # None
    THEN \E f \in Nodes(composite_filter) : f.name = "no-interaction"
    ELSE \E i \in DOMAIN Unbox(filter_list) :
            Unbox(filter_list)[i].name = "no-interaction"

\* C23: _run_analysis asks the data source for interaction data exactly when
\* the expression (at any depth) or the filter list holds a no-interaction
\* filter and num_videos + num_dynamics > 0; otherwise it makes no such
\* request and the context's interacting_users is empty.
C23_InteractionsCollectedIffNeeded ==
    [][(pc = "_run_analysis" /\ last'.op = "_run_analysis") =>
        LET wanted == HoldsNoInteraction /\ args.num_videos + args.num_dynamics > 0
        IN /\ last'.calls > 0 <=> wanted
           /\ (~wanted /\ ~last'.raised) =>
                 /\ pc' = "apply"
                 /\ interacting_users' = {}]_vars

\* The expression "not-following-back + (deactivated | no-interaction)" with
\* --num-videos 0 --num-dynamics 1: the interactions with the dynamics were
\* collected.
C23_Witness ==
    /\ last.op = "_run_analysis" /\ ~last.raised
    /\ parsed.template = T.Aand_parBorC
    /\ composite_filter.filters[2].filters[2].name = "no-interaction"
    /\ composite_filter.filters[1].name = "not-following-back"
    /\ args.num_videos = 0 /\ args.num_dynamics = 1
    /\ last.calls = 1
    /\ interacting_users = {2}

----------------------------------------------------------------------------
(* Simple mode against expression mode *)

\* What apply_filter_expression's composite_filter.matches gives for
\* AndFilter(L) in mode "and" and OrFilter(L) in mode "or", L being the list
\* of the run and the data source not failing, on the context c.
AsExpression(following, c) ==
    matches(IF filter_mode = "and"
            THEN AndFilter(Unbox(filter_list))
            ELSE OrFilter(Unbox(filter_list)),
            following, [c |-> c, trace |-> <<>>], <<>>)

\* The context as it is, served by a data source that does not fail, and a
\* context that has fetched nothing yet.
CtxNow == Ctx({})
CtxFresh == [CtxNow EXCEPT !.store = EmptyDict, !.user_stats = EmptyDict,
                           !.user_activity = EmptyDict]

\* The subject was appended to the results with these matched_filters, or
\* was not appended when the expression does not match.
SameOutcome(following, e) ==
    /\ ~e.raised
    /\ IF e.info.matched
       THEN /\ results' = Append(results, results'[Len(results')])
            /\ results'[Len(results')].following = following
            /\ results'[Len(results')].matched_filters = e.info.filter_names
       ELSE results' = results

\* C24: for a non-empty list L of primitive filters and a data source that
\* does not fail, every iteration of apply_filters(L, mode) includes the
\* subject exactly when AndFilter(L) (mode "and") or OrFilter(L) (mode "or")
\* matches it, and with the matched_filters that apply_filter_expression
\* would give it, whether the expression is evaluated on the same context or
\* on one that has fetched nothing.
C24_SimpleModeAgreesWithExpression ==
    [][(composite_filter = None /\ processed' = processed + 1) =>
        /\ SameOutcome(followings[processed + 1],
                       AsExpression(followings[processed + 1], CtxNow))
        /\ SameOutcome(followings[processed + 1],
                       AsExpression(followings[processed + 1], CtxFresh))]_vars

\* Mode "or" over three filters: the first subject was included with two of
\* the three names, the second subject has been gone through too.
C24_Witness ==
    /\ composite_filter = None
    /\ filter_mode = "or"
    /\ Len(Unbox(filter_list)) = 3
    /\ processed = 2
    /\ results # <<>>
    /\ results[1].following.mid = 1
    /\ Len(results[1].matched_filters) = 2

\* The evaluations of the i-th filter of the list that trace t records: the
\* entries into its matches() and the returns from it.
Entries(t, i) == {k \in DOMAIN t : t[k].ev = "eval" /\ t[k].path = <<i>>}
Returns(t, i) == {k \in DOMAIN t : t[k].ev = "ret" /\ t[k].path = <<i>>}

\* C25: in simple mode, in mode "and" as in mode "or", an iteration that no
\* data-source error ends evaluates every filter of the list exactly once on
\* the subject, whatever the earlier filters returned, so that the context
\* holds the data every filter asks for; in mode "and" the subject is
\* included iff as many filters matched as the list has.
C25_EveryFilterEvaluatedOnce ==
    [][(composite_filter = None /\ processed' = processed + 1) =>
        LET L == Unbox(filter_list)
            t == evalOut'.trace
            mid == followings[processed + 1].mid
            matched == {i \in DOMAIN L : \E k \in Returns(t, i) : t[k].info.matched}
        IN /\ \A i \in DOMAIN L :
                /\ Cardinality(Entries(t, i)) = 1
                /\ Cardinality(Returns(t, i)) = 1
                /\ L[i].name = "below-followers" => mid \in DOMAIN user_stats'
                /\ L[i].name = "deactivated" => mid \in DOMAIN user_activity'
           /\ filter_mode = "and" =>
                (Len(results') = Len(results) + 1
                    <=> Cardinality(matched) = Len(L))
           /\ Len(results') = Len(results) + 1 =>
                results'[Len(results')].following.mid = mid]_vars

\* Mode "and", the list not-following-back, below-followers:5000: user 2
\* follows back, so the first filter did not match; user 2's stat was fetched
\* for the second filter all the same, and user 2 is not in the results.
C25_Witness ==
    /\ composite_filter = None
    /\ filter_mode = "and"
    /\ Len(Unbox(filter_list)) = 2
    /\ Unbox(filter_list)[1].name = "not-following-back"
    /\ Unbox(filter_list)[2].name = "below-followers"
    /\ processed = 2
    /\ evalOut.following.mid = 2
    /\ \E k \in Returns(evalOut.trace, 1) : ~evalOut.trace[k].info.matched
    /\ statFetches[2] = 1
    /\ \A j \in DOMAIN results : results[j].following.mid # 2

----------------------------------------------------------------------------
(* The parser's cursor *)

\* The cursor, at p when a method of the parser is entered, is at q when the
\* method returns or raises: not before p and not past the end of the input.
Advanced(expr, p, q) == p <= q /\ q <= Len(expr)

\* Where _parse_or, _parse_and and _parse_atom are entered: at the start of
\* the input and right after a "(", a "+" or a "|" (the `self.pos += 1` that
\* precedes each call).
EntryPoints(expr) ==
    {0} \cup {p \in 1..Len(expr) : expr[p] \in {"(", "+", "|"}}

----------------------------------------------------------------------------
(* Errors in the filters given to main *)

\* The expression is malformed or names an unknown filter, or one of the -f
\* specs does.
BadFilterArgs ==
    LET bad == {<<"u", "n", "k", "n", "o", "w", "n">>, <<"m", "u", "t", "u", "a", "l", ":">>}
    IN IF parsed.expr # <<>>
       THEN parsed.template = T.unclosed \/ parsed.a \in bad
       ELSE \E i \in DOMAIN parsed.filters : parsed.filters[i] \in bad

----------------------------------------------------------------------------
(* The filters on the activity record, against each other *)

\* The filter matches the subject that was evaluated last, on the context as
\* it is (the data source not failing).
MatchesEvaluated(f) ==
    matches(f, evalOut.following, [c |-> Ctx({}), trace |-> <<>>], <<>>).info.matched

\* C28: whatever activity record the context holds for a subject, the
\* deactivated filter and the no-posts filter do not both match the
\* subject, and when one of them does, inactive:d matches it too, for
\* negative, zero, small and huge d alike.
C28_DeactivatedNoPostsInactive ==
    (evalOut.following.mid \in DOMAIN user_activity) =>
        LET deactivated == MatchesEvaluated(Prim("deactivated", NoParam))
            no_posts == MatchesEvaluated(Prim("no-posts", NoParam))
        IN /\ ~(deactivated /\ no_posts)
           /\ composite_filter.name = "deactivated" =>
                 (~evalOut.raised => evalOut.info.matched = deactivated)
           /\ composite_filter.name = "no-posts" =>
                 (~evalOut.raised => evalOut.info.matched = no_posts)
           /\ (deactivated \/ no_posts) =>
                 \A d \in {-100000, -1, 0, 2, 100000} :
                    MatchesEvaluated(Prim("inactive", Param(d, 1)))

\* The run's filter is no-posts and it matched a subject that has no posts
\* and no time of a last post; deactivated does not match it, inactive:100000
\* does.
C28_Witness ==
    /\ composite_filter.name = "no-posts"
    /\ processed = 1
    /\ evalOut.info.matched
    /\ 1 \in DOMAIN user_activity
    /\ Unbox(user_activity[1]).last_post_ts = None
    /\ ~MatchesEvaluated(Prim("deactivated", NoParam))
    /\ MatchesEvaluated(Prim("inactive", Param(100000, 1)))

----------------------------------------------------------------------------
(* get_user_activity called with a max_dynamics of the caller's choice *)

\* A caller asks the context for a user's activity and passes max_dynamics:
\* the default, or 5, fewer than some users have posts.
GetUserActivityBounded ==
    /\ Live
    /\ \E mid \in Mids, md \in {DEFAULT_MAX_DYNAMICS, 5}, failing \in SUBSET FetchKinds :
        /\ actFetches[mid] < MaxFetchCount
        /\ CalledActivity(mid, md, get_user_activity(Ctx(failing), mid, md))
    /\ UNCHANGED <<now, remoteStat, remoteActivity,
                   cacheOn, user_stats, statFetches, closed>>
    /\ UNCHANGED nonCtxVars

\* Such calls in one run and the next, the clock moving.
ActivityNext ==
    \/ GetUserActivityBounded
    \/ Tick
    \/ Close
    \/ NewRun

SpecActivity == Init /\ [][ActivityNext]_vars

\* C29: the memo and the persistent key of a user's activity do not depend
\* on max_dynamics: when the memo holds the user's record, or else the
\* persistent cache serves one, get_user_activity returns that record,
\* whatever max_dynamics it is called with, and does not call the data
\* source; the key it uses holds the id only.
C29_ActivityKeyIgnoresMaxDynamics ==
    [][(last'.op = "get_user_activity" /\ ~(closed /\ ~closed')) =>
        LET mid == last'.mid
            served == IF cacheOn THEN CacheGet(store, make_user_activity_key(mid))
                      ELSE None
        IN /\ make_user_activity_key(mid) = <<"user_activity", mid>>
           /\ mid \in DOMAIN user_activity =>
                 /\ last'.value = user_activity[mid]
                 /\ last'.calls = 0
                 /\ UNCHANGED <<actFetches, store>>
           /\ (mid \notin DOMAIN user_activity /\ served # None) =>
                 /\ last'.value = served
                 /\ last'.calls = 0
                 /\ UNCHANGED <<actFetches, store>>]_vars

\* User 2 has more than 5 posts; the record fetched with max_dynamics 5 was
\* returned to a call with max_dynamics 10 of a later run, from the
\* persistent cache, without a fetch.
C29_Witness ==
    /\ last.op = "get_user_activity" /\ last.mid = 2
    /\ last.max_dynamics = DEFAULT_MAX_DYNAMICS
    /\ ~last.memoHit
    /\ last.calls = 0
    /\ actFetches[2] = 0
    /\ remoteActivity[2].posts > 5
    /\ Unbox(last.value).total_dynamics = 5

----------------------------------------------------------------------------
(* A fetch that raises *)

\* C30: when the data source raises inside get_user_stat or
\* get_user_activity, the call raises (the run is aborted, nothing is
\* returned) after exactly one call of the data source, and it leaves both
\* memo maps and the persistent store as they were, for that id and for
\* every other.
C30_FailedFetchLeavesNoEntry ==
    [][(last'.op \in {"get_user_stat", "get_user_activity"} /\ last'.raised) =>
        /\ aborted'
        /\ last'.value = None
        /\ last'.calls = 1
        /\ last'.mid \notin DOMAIN user_stats' \/ last'.op # "get_user_stat"
        /\ last'.mid \notin DOMAIN user_activity' \/ last'.op # "get_user_activity"
        /\ UNCHANGED <<store, user_stats, user_activity>>]_vars

\* The stat fetch for user 1 raised while the store held user 1's activity
\* and an expired stat entry of user 1 from an earlier run: all is as it was.
C30_Witness ==
    /\ last.op = "get_user_stat" /\ last.mid = 1 /\ last.raised
    /\ aborted
    /\ cacheOn
    /\ 1 \notin DOMAIN user_stats
    /\ 1 \in DOMAIN user_activity
    /\ make_user_activity_key(1) \in DOMAIN store
    /\ make_user_stat_key(1) \in DOMAIN store
    /\ ~Unexpired(store[make_user_stat_key(1)])

====
